---------------------------- MODULE Spec2Model ----------------------------
(***************************************************************************)
(* A model of rubato's rigid-body physics and collision components:        *)
(* Hitbox.collide and the SAT circle tests (hitbox.py), RigidBody and its  *)
(* impulse resolver (rigidbody.py).                                        *)
(*                                                                         *)
(* Python floats are modelled by exact rationals <<n, d>> (d > 0, lowest   *)
(* terms), vectors by records [x, y] of rationals.  Inputs are chosen so   *)
(* that every square root the code takes is the root of a perfect square.  *)
(***************************************************************************)
EXTENDS Integers, Sequences, FiniteSets, TLC

VARIABLES
    gameobj,    \* [Obj -> [pos, rotation]]      GameObject.pos / .rotation
    rigid,      \* [Obj -> Seq(RigidBody)]       the RigidBody components held
    hitbox,     \* [Obj -> Circle]               the Hitbox component held
    start,      \* [go, rb]: gameobj and rigid as constructed
    last,       \* the last operation: its name, arguments, pre-state, outcome
    steps,      \* operations executed so far
    sched,      \* Time.delayed_frames queue: Seq([delay, fn, impulse, time])
    cont,       \* the continuous force requested and its applications so far
    poly,       \* the last Polygon() or generate_polygon call and its outcome
    components, \* GameObject._components: Seq([key, val]), in insertion order
    comp_gameobj, \* [component -> BOOLEAN]: component.gameobj is the game object
    alias,      \* which Vector objects a RigidBody and its clone share
    simple_tilemap \* the SimpleTilemap component: its fields and uptodate

vars == <<gameobj, rigid, hitbox, start, last, steps, sched, cont, poly,
          components, comp_gameobj, alias, simple_tilemap>>

(***************************************************************************)
(* Rational arithmetic                                                     *)
(***************************************************************************)
Abs(i) == IF i < 0 THEN -i ELSE i

RECURSIVE Gcd(_, _)
Gcd(a, b) == IF b = 0 THEN a ELSE Gcd(b, a % b)

Norm(n, d) ==
    LET g == Gcd(Abs(n), Abs(d))
        s == IF d < 0 THEN -1 ELSE 1
    IN  <<(s * n) \div g, (s * d) \div g>>

R(i) == <<i, 1>>
Q(n, d) == Norm(n, d)
Zero == <<0, 1>>
One == <<1, 1>>

RAdd(a, b) == Norm(a[1] * b[2] + b[1] * a[2], a[2] * b[2])
RNeg(a) == <<-a[1], a[2]>>
RSub(a, b) == RAdd(a, RNeg(b))
RMul(a, b) == Norm(a[1] * b[1], a[2] * b[2])
\* only used where the divisor has been tested to be non-zero
RDiv(a, b) == Norm(a[1] * b[2], a[2] * b[1])
RLt(a, b) == a[1] * b[2] < b[1] * a[2]
RLe(a, b) == a[1] * b[2] <= b[1] * a[2]
RMax(a, b) == IF RLt(a, b) THEN b ELSE a
RMin(a, b) == IF RLt(b, a) THEN b ELSE a
RAbs(a) == <<Abs(a[1]), a[2]>>
RSq(a) == RMul(a, a)

\* floor of the integer square root
RECURSIVE ISqrt(_)
ISqrt(n) ==
    IF n < 2 THEN n
    ELSE LET s == 2 * ISqrt(n \div 4)
         IN  IF (s + 1) * (s + 1) <= n THEN s + 1 ELSE s

IsSquare(a) == ISqrt(a[1]) * ISqrt(a[1]) = a[1] /\ ISqrt(a[2]) * ISqrt(a[2]) = a[2]
RSqrt(a) == <<ISqrt(a[1]), ISqrt(a[2])>>

(***************************************************************************)
(* rubato.Vector (the class itself is not among the sources; these are the *)
(* usual 2D operations the components call)                                *)
(***************************************************************************)
Vec(x, y) == [x |-> x, y |-> y]
V(i, j) == Vec(R(i), R(j))
VZero == V(0, 0)
VAdd(u, v) == Vec(RAdd(u.x, v.x), RAdd(u.y, v.y))
VSub(u, v) == Vec(RSub(u.x, v.x), RSub(u.y, v.y))
VNeg(u) == Vec(RNeg(u.x), RNeg(u.y))
VScale(u, r) == Vec(RMul(u.x, r), RMul(u.y, r))
dot(u, v) == RAdd(RMul(u.x, v.x), RMul(u.y, v.y))
cross(u, v) == RSub(RMul(u.x, v.y), RMul(u.y, v.x))
\* Vector.perpendicular(scalar): the vector turned a quarter, scaled
perpendicular(u, s) == Vec(RMul(u.y, s), RNeg(RMul(u.x, s)))
magnitude(u) == RSqrt(RAdd(RSq(u.x), RSq(u.y)))
HasExactMagnitude(u) == IsSquare(RAdd(RSq(u.x), RSq(u.y)))
\* Vector.unit() and the magnitude setter leave a zero vector as it is
unit(u) == IF u = VZero THEN VZero ELSE VScale(u, RDiv(One, magnitude(u)))
set_magnitude(u, r) == IF u = VZero THEN VZero ELSE VScale(unit(u), r)
clamp(u, lo, hi) ==
    Vec(RMax(lo.x, RMin(hi.x, u.x)), RMax(lo.y, RMin(hi.y, u.y)))

(***************************************************************************)
(* Time (the scheduler; not among the sources)                             *)
(***************************************************************************)
\* Time.milli_to_sec(Time.fixed_delta): the fixed physics step, in seconds
fixed_delta_sec == Q(1, 2)
\* Time.delta_time: the elapsed time of a frame, in the unit of add_cont_force
delta_time == R(1)

(***************************************************************************)
(* RigidBody                                                               *)
(***************************************************************************)
Obj == {1, 2}
NoBody == <<>>

\* RigidBody.__init__(options)
RigidBody(params) ==
    [static         |-> params.static,
     gravity        |-> params.gravity,
     friction       |-> params.friction,
     max_speed      |-> params.max_speed,
     pos_correction |-> params.pos_correction,
     velocity       |-> params.velocity,
     ang_vel        |-> params.ang_vel,
     inv_mass       |-> IF params.mass = Zero \/ params.static
                        THEN Zero ELSE RDiv(One, params.mass),
     inv_moment     |-> IF params.moment = Zero \/ params.static
                        THEN Zero ELSE RDiv(One, params.moment),
     bounciness     |-> params.bounciness]

\* the mass property
mass(rb) == IF rb.inv_mass = Zero THEN Zero ELSE RDiv(One, rb.inv_mass)
\* the moment property
moment(rb) == IF rb.inv_moment = Zero THEN Zero ELSE RDiv(One, rb.inv_moment)

\* the mass setter
set_mass(rb, new) ==
    [rb EXCEPT !.inv_mass = IF new = Zero THEN Zero ELSE RDiv(One, new)]
\* the moment setter
set_moment(rb, new) ==
    [rb EXCEPT !.inv_moment = IF new = Zero THEN Zero ELSE RDiv(One, new)]

\* RigidBody.add_force(force)
add_force(rb, force) ==
    LET accel == VScale(force, rb.inv_mass)
    IN  [rb EXCEPT !.velocity = VAdd(rb.velocity, VScale(accel, fixed_delta_sec))]

\* physics() with the position advanced before the velocity is clamped
physics_moving_before_clamp(rb, go) ==
    LET forced  == add_force(rb, VScale(rb.gravity, mass(rb)))
        clamped == [forced EXCEPT !.velocity =
                        clamp(forced.velocity, VNeg(rb.max_speed), rb.max_speed)]
    IN  [rb |-> clamped,
         go |-> [go EXCEPT
                    !.pos = VAdd(go.pos, VScale(forced.velocity, fixed_delta_sec)),
                    !.rotation = RAdd(go.rotation,
                                      RMul(clamped.ang_vel, fixed_delta_sec))]]

\* RigidBody.physics(): returns the body and its game object after one tick
physics(rb, go) ==
    LET forced  == add_force(rb, VScale(rb.gravity, mass(rb)))
        clamped == [forced EXCEPT !.velocity =
                        clamp(forced.velocity, VNeg(rb.max_speed), rb.max_speed)]
    IN  [rb |-> clamped,
         go |-> [go EXCEPT
                    !.pos = VAdd(go.pos, VScale(clamped.velocity, fixed_delta_sec)),
                    !.rotation = RAdd(go.rotation,
                                      RMul(clamped.ang_vel, fixed_delta_sec))]]

fixed_update_ignoring_static(rb, go) == physics(rb, go)
\* RigidBody.fixed_update()
fixed_update(rb, go) ==
    IF ~rb.static THEN physics(rb, go) ELSE [rb |-> rb, go |-> go]

\* the slop of the positional correction
slop == Q(1, 100)

\* the RigidBody of a game object, as GameObject.get(RigidBody) finds it
is_none(rbs, o) == rbs[o] = NoBody
get(rbs, o) == rbs[o][1]

Unchanged(go, rbs, exc) == [go |-> go, rb |-> rbs, raised |-> exc]

\* the two body updates of the impulse and of the friction impulse; `imp` is
\* applied to velocity and angular velocity, `corr` (or the zero vector) to
\* the position
apply_a(col, go, rbs, ia, inv_mass_a, imp, corr) ==
    IF ~(is_none(rbs, ia) \/ get(rbs, ia).static)
    THEN LET rb_a == get(rbs, ia)
         IN  [go |-> [go EXCEPT ![ia].pos =
                        VSub(@, VScale(VScale(corr, inv_mass_a), rb_a.pos_correction))],
              rb |-> [rbs EXCEPT ![ia] = <<[rb_a EXCEPT
                        !.velocity = VSub(@, VScale(imp, inv_mass_a)),
                        !.ang_vel = RSub(@, RMul(cross(col.contact_a, imp),
                                                 rb_a.inv_moment))]>>]]
    ELSE [go |-> go, rb |-> rbs]

\* the update of rb_b without the positional correction
apply_b_uncorrected(col, go, rbs, ib, inv_mass_b, imp, corr) ==
    IF ~(is_none(rbs, ib) \/ get(rbs, ib).static)
    THEN [go |-> go,
          rb |-> [rbs EXCEPT ![ib] = <<[get(rbs, ib) EXCEPT
                    !.velocity = VAdd(@, VScale(imp, inv_mass_b)),
                    !.ang_vel = RAdd(@, RMul(cross(col.contact_b, imp),
                                             get(rbs, ib).inv_moment))]>>]]
    ELSE [go |-> go, rb |-> rbs]

\* the update of rb_b with the positional correction alone
apply_b_position_only(col, go, rbs, ib, inv_mass_b, imp, corr) ==
    IF ~(is_none(rbs, ib) \/ get(rbs, ib).static)
    THEN [go |-> [go EXCEPT ![ib].pos =
                    VAdd(@, VScale(VScale(corr, inv_mass_b),
                                   get(rbs, ib).pos_correction))],
          rb |-> rbs]
    ELSE [go |-> go, rb |-> rbs]

apply_b(col, go, rbs, ib, inv_mass_b, imp, corr) ==
    IF ~(is_none(rbs, ib) \/ get(rbs, ib).static)
    THEN LET rb_b == get(rbs, ib)
         IN  [go |-> [go EXCEPT ![ib].pos =
                        VAdd(@, VScale(VScale(corr, inv_mass_b), rb_b.pos_correction))],
              rb |-> [rbs EXCEPT ![ib] = <<[rb_b EXCEPT
                        !.velocity = VAdd(@, VScale(imp, inv_mass_b)),
                        !.ang_vel = RAdd(@, RMul(cross(col.contact_b, imp),
                                                 rb_b.inv_moment))]>>]]
    ELSE [go |-> go, rb |-> rbs]

\* friction with the tangent taken from rv itself, its part along the normal
\* included
friction_along_rv(col, go, rbs, ia, ib, inv_mass_a, inv_mass_b, inv_sys_mass, rv, j) ==
    LET a_none == is_none(rbs, ia)
        b_none == is_none(rbs, ib)
        fa == get(rbs, ia).friction
        fb == get(rbs, ib).friction
        mu == IF a_none THEN RMul(fb, fb)
              ELSE IF b_none THEN RMul(fa, fa)
              ELSE RMin(RMul(fa, fa), RMul(fb, fb))
        tangent == Vec(IF rv.x = Zero THEN Zero ELSE One,
                       IF rv.y = Zero THEN Zero ELSE One)
        jt == RMul(RNeg(dot(rv, tangent)), inv_sys_mass)
        friction_impulse ==
            IF RLt(RAbs(jt), RMul(j, mu))
            THEN VScale(tangent, jt)
            ELSE VScale(VScale(tangent, RNeg(j)), mu)
        s1 == apply_a(col, go, rbs, ia, inv_mass_a, friction_impulse, VZero)
        s2 == apply_b(col, s1.go, s1.rb, ib, inv_mass_b, friction_impulse, VZero)
    IN  IF mu = Zero THEN Unchanged(go, rbs, "")
        ELSE Unchanged(s2.go, s2.rb, "")

\* lines 226-259: friction, on the state the normal impulse left
friction(col, go, rbs, ia, ib, inv_mass_a, inv_mass_b, inv_sys_mass, rv, j) ==
    LET a_none == is_none(rbs, ia)
        b_none == is_none(rbs, ib)
        fa == get(rbs, ia).friction
        fb == get(rbs, ib).friction
        mu == IF a_none THEN RMul(fb, fb)
              ELSE IF b_none THEN RMul(fa, fa)
              ELSE RMin(RMul(fa, fa), RMul(fb, fb))
        tangent == set_magnitude(
                       VSub(rv, VScale(col.normal, dot(rv, col.normal))), One)
        jt == RMul(RNeg(dot(rv, tangent)), inv_sys_mass)
        friction_impulse ==
            IF RLt(RAbs(jt), RMul(j, mu))
            THEN VScale(tangent, jt)
            ELSE VScale(VScale(tangent, RNeg(j)), mu)
        s1 == apply_a(col, go, rbs, ia, inv_mass_a, friction_impulse, VZero)
        s2 == apply_b(col, s1.go, s1.rb, ib, inv_mass_b, friction_impulse, VZero)
    IN  IF mu = Zero THEN Unchanged(go, rbs, "")
        ELSE Unchanged(s2.go, s2.rb, "")

separating_when_negative(vel_along_norm) == RLt(vel_along_norm, Zero)
\* line 200: the bodies are already separating
separating(vel_along_norm) == RLt(Zero, vel_along_norm)

\* the relative velocity at the contact points (lines 197-198)
relative_velocity(col, rbs, ia, ib) ==
    VSub(IF is_none(rbs, ib) THEN VZero
         ELSE VSub(get(rbs, ib).velocity,
                   perpendicular(col.contact_b, get(rbs, ib).ang_vel)),
         IF is_none(rbs, ia) THEN VZero
         ELSE VSub(get(rbs, ia).velocity,
                   perpendicular(col.contact_a, get(rbs, ia).ang_vel)))

\* RigidBody.handle_collision(col): the game objects, the bodies and the
\* exception raised ("" when the call returns)
handle_collision(col, go, rbs) ==
    LET ia == col.shape_b       \* rb_a = col.shape_b.gameobj.get(RigidBody)
        ib == col.shape_a       \* rb_b = col.shape_a.gameobj.get(RigidBody)
        a_none == is_none(rbs, ia)
        b_none == is_none(rbs, ib)
        m0a == IF a_none THEN Zero ELSE get(rbs, ia).inv_mass
        m0b == IF b_none THEN Zero ELSE get(rbs, ib).inv_mass
        both0 == m0a = Zero /\ m0b = Zero
        inv_mass_a == IF both0 /\ ~a_none THEN One ELSE m0a
        inv_mass_b == IF both0 /\ (a_none \/ ~b_none) THEN One ELSE m0b
        sys == RAdd(inv_mass_a, inv_mass_b)
        inv_sys_mass == RDiv(One, sys)
        correction == VScale(col.normal,
                        RMul(RMax(RSub(col.penetration, slop), Zero), inv_sys_mass))
        rv == relative_velocity(col, rbs, ia, ib)
        vel_along_norm == dot(rv, col.normal)
        e == RMax(IF a_none THEN Zero ELSE get(rbs, ia).bounciness,
                  IF b_none THEN Zero ELSE get(rbs, ib).bounciness)
        i_a == IF a_none THEN Zero
               ELSE RMul(RSq(cross(col.contact_a, col.normal)), get(rbs, ia).inv_moment)
        \* line 208 tests a_none, then reads rb_b.inv_moment
        i_b == IF a_none THEN Zero
               ELSE RMul(RSq(cross(col.contact_b, col.normal)), get(rbs, ib).inv_moment)
        den == RAdd(RAdd(RAdd(inv_mass_a, inv_mass_b), i_a), i_b)
        j == RDiv(RMul(RNeg(RAdd(One, e)), vel_along_norm), den)
        impulse == VScale(col.normal, j)
        s1 == apply_a(col, go, rbs, ia, inv_mass_a, impulse, correction)
        s2 == apply_b(col, s1.go, s1.rb, ib, inv_mass_b, impulse, correction)
    IN  IF a_none /\ b_none THEN Unchanged(go, rbs, "")
        ELSE IF sys = Zero THEN Unchanged(go, rbs, "ZeroDivisionError")
        ELSE IF separating(vel_along_norm) THEN Unchanged(go, rbs, "")
        ELSE IF ~a_none /\ b_none THEN Unchanged(go, rbs, "AttributeError")
        ELSE IF den = Zero THEN Unchanged(go, rbs, "ZeroDivisionError")
        ELSE CHOOSE r \in
                { friction(col, s.go, s.rb, ia, ib, inv_mass_a, inv_mass_b,
                           inv_sys_mass, v, jv) :
                  s \in {s2}, v \in {rv}, jv \in {j} } : TRUE

(***************************************************************************)
(* Hitbox, Circle, CollisionInfo and SAT                                   *)
(***************************************************************************)
\* Circle.__init__(options); the circle's pos is its owner's position
Circle(radius, scale, trigger) ==
    [kind |-> "circle", radius |-> radius, scale |-> scale, trigger |-> trigger]

\* Circle.transformed_radius()
transformed_radius(c) == RMul(c.radius, c.scale)

\* SAT returning None
None == [hit |-> FALSE, shape_a |-> 0, shape_b |-> 0, sep |-> VZero]
\* CollisionInfo with its fields set
CollisionInfo(a, b, sep) == [hit |-> TRUE, shape_a |-> a, shape_b |-> b, sep |-> sep]

circle_circle_test_open(hb, go, a, b) ==
    LET total_radius == RAdd(hb[a].radius, hb[b].radius)
        distance == magnitude(VSub(go[b].pos, go[a].pos))
    IN  IF RLe(total_radius, distance) THEN None
        ELSE CollisionInfo(a, b, VScale(unit(VSub(go[a].pos, go[b].pos)),
                                        RSub(total_radius, distance)))

\* SAT.circle_circle_test(shape_a, shape_b), the shapes named by their owners
circle_circle_test(hb, go, a, b) ==
    LET total_radius == RAdd(hb[a].radius, hb[b].radius)
        distance == magnitude(VSub(go[b].pos, go[a].pos))
    IN  IF RLt(total_radius, distance) THEN None
        ELSE CollisionInfo(a, b, VScale(unit(VSub(go[a].pos, go[b].pos)),
                                        RSub(total_radius, distance)))

\* a < b * sqrt(k) and a > b * sqrt(k), for rationals a, b and k >= 0,
\* decided on the squares; this is how a projection on an axis whose length
\* is not rational is compared
SurdLt(a, b, k) ==
    IF RLe(Zero, b)
    THEN RLt(a, Zero) \/ RLt(RSq(a), RMul(RSq(b), k))
    ELSE RLt(a, Zero) /\ RLt(RMul(RSq(b), k), RSq(a))
SurdGt(a, b, k) == SurdLt(RNeg(a), RNeg(b), k)

\* Vector.transform(scale, rotation): scaled, then turned; rotation is in
\* degrees and a multiple of 90 here
transform(v, scale, rotation) ==
    LET s == VScale(v, scale)
        q == (rotation[1] \div 90) % 4
    IN  CASE q = 0 -> s
          [] q = 1 -> Vec(RNeg(s.y), s.x)
          [] q = 2 -> VNeg(s)
          [] q = 3 -> Vec(s.y, RNeg(s.x))

\* Polygon.transformed_verts()
transformed_verts(p) ==
    [i \in 1..Len(p.verts) |-> transform(p.verts[i], p.scale, p.rotation)]

generate_rect_half_extents(w, h) ==
    <<Vec(RNeg(w), RNeg(h)), Vec(w, RNeg(h)), Vec(w, h), Vec(RNeg(w), h)>>

\* Polygon.generate_rect(w, h)
generate_rect(w, h) ==
    LET hw == RDiv(w, R(2))
        hh == RDiv(h, R(2))
    IN  <<Vec(RNeg(hw), RNeg(hh)), Vec(hw, RNeg(hh)), Vec(hw, hh), Vec(RNeg(hw), hh)>>

\* the side from vertex index to the next one, turned a quarter, before it
\* is normalised
side_normal(verts, index) ==
    LET pt_1 == verts[index]
        pt_2 == verts[(index % Len(verts)) + 1]
    IN  Vec(RSub(pt_1.y, pt_2.y), RSub(pt_2.x, pt_1.x))

\* SAT.perpendicular_axis(verts, index), vertices counted from 1
perpendicular_axis(verts, index) == unit(side_normal(verts, index))

\* SAT.project_verts(verts, axis): x is the least, y the greatest projection
project_verts(verts, axis) ==
    LET proj == { dot(axis, verts[i]) : i \in 1..Len(verts) }
    IN  Vec(CHOOSE m \in proj : \A t \in proj : RLe(m, t),
            CHOOSE m \in proj : \A t \in proj : RLe(t, m))

\* a range moved by a scalar (Vector + float)
shift(range, r) == Vec(RAdd(range.x, r), RAdd(range.y, r))

\* abs(dist_min) < shortest, where shortest is <<>>, Math.INFINITY, or
\* <<v>>, a rational, or <<p, r, k>>, standing for |p / sqrt(k) - r| with k
\* not a square
Shorter(d, shortest) ==
    IF Len(shortest) = 0 THEN TRUE
    ELSE IF Len(shortest) = 1 THEN RLt(d, shortest[1])
    ELSE IF SurdLt(shortest[1], shortest[2], shortest[3])
    THEN SurdLt(shortest[1], RSub(shortest[2], d), shortest[3])
    ELSE SurdGt(shortest[1], RAdd(d, shortest[2]), shortest[3])

\* shortest and result.sep before the first axis
NoAxisYet == [shortest |-> <<>>, sep |-> VZero, exact |-> TRUE]

\* lines 513-515 and 479-481: the axis is kept if its distance is shorter
keep_shortest(axis, dist, best) ==
    IF Shorter(RAbs(dist), best.shortest)
    THEN [shortest |-> <<RAbs(dist)>>, sep |-> VScale(axis, dist), exact |-> TRUE]
    ELSE best

\* one axis of polygon_polygon_test with min_dist taken as if flip were False
polygon_ranges_unflipped(axis, a_range, b_range, flip, best) ==
    IF RLt(b_range.y, a_range.x) \/ RLt(a_range.y, b_range.x) THEN <<>>
    ELSE <<keep_shortest(axis, RSub(b_range.x, a_range.y), best)>>

\* lines 508-515: one axis of polygon_polygon_test, given the two ranges;
\* <<>> when the axis separates the polygons
polygon_ranges(axis, a_range, b_range, flip, best) ==
    IF RLt(b_range.y, a_range.x) \/ RLt(a_range.y, b_range.x) THEN <<>>
    ELSE <<keep_shortest(axis,
                         IF flip THEN RSub(a_range.x, b_range.y)
                         ELSE RSub(b_range.x, a_range.y),
                         best)>>

\* lines 505-515: one axis of polygon_polygon_test
polygon_axis(verts_a, verts_b, offset, flip, axis, best) ==
    polygon_ranges(axis,
                   shift(project_verts(verts_a, axis), dot(axis, offset)),
                   project_verts(verts_b, axis), flip, best)

\* lines 502-517: the loop over the side normals of shape_a, from side i
RECURSIVE polygon_axes(_, _, _, _, _, _)
polygon_axes(verts_a, verts_b, offset, flip, i, found) ==
    IF found = <<>> \/ i > Len(verts_a) THEN found
    ELSE polygon_axes(verts_a, verts_b, offset, flip, i + 1,
                      polygon_axis(verts_a, verts_b, offset, flip,
                                   perpendicular_axis(verts_a, i), found[1]))

\* the CollisionInfo of a finished loop, or None
sat_result(found, shape_a, shape_b) ==
    IF found = <<>> THEN [info |-> None, exact |-> TRUE]
    ELSE [info |-> CollisionInfo(shape_a, shape_b, found[1].sep),
          exact |-> found[1].exact]

\* SAT.polygon_polygon_test(shape_a, shape_b, flip): the axes are the side
\* normals of shape_a only
polygon_polygon_test(hb, go, a, b, flip) ==
    sat_result(polygon_axes(transformed_verts(hb[a]), transformed_verts(hb[b]),
                            VSub(go[a].pos, go[b].pos), flip, 1, <<NoAxisYet>>),
               IF flip THEN b ELSE a, IF flip THEN a ELSE b).info

\* the index of the vertex closest to the circle's centre: the first one at
\* the least distance (line 448 compares with <)
closest_vertex(verts, centre) ==
    LET d2(i) == dot(VSub(centre, verts[i]), VSub(centre, verts[i]))
    IN  CHOOSE i \in 1..Len(verts) :
            /\ \A j \in 1..Len(verts) : RLe(d2(i), d2(j))
            /\ \A j \in 1..(i - 1) : RLt(d2(i), d2(j))

\* lines 459-466 and 473-481: one axis of circle_polygon_test, given the
\* polygon's range on it
circle_range(axis, poly_range, radius, flip, best) ==
    IF RLt(radius, poly_range.x) \/ RLt(poly_range.y, RNeg(radius)) THEN <<>>
    ELSE <<keep_shortest(axis,
                         IF flip THEN RNeg(RSub(poly_range.x, radius))
                         ELSE RSub(poly_range.x, radius),
                         best)>>

\* one axis of circle_polygon_test
circle_axis(verts, offset, radius, flip, axis, best) ==
    circle_range(axis, shift(project_verts(verts, axis), dot(axis, offset)),
                 radius, flip, best)

\* lines 452-466 for an axis u whose length sqrt(k) is not rational: the
\* range is taken along u, sqrt(k) times the range the code computes, and
\* compared on the squares; the separation along this axis is not
\* represented (exact is FALSE while this axis is the one to report)
surd_range(range, radius, k) ==
    IF SurdGt(range.x, radius, k) \/ SurdLt(range.y, RNeg(radius), k) THEN <<>>
    ELSE <<[shortest |-> <<range.x, radius, k>>, sep |-> VZero, exact |-> FALSE]>>

\* lines 452-466: the axis from the circle's centre to the closest vertex
vertex_axis(verts, offset, radius, flip, u) ==
    IF IsSquare(dot(u, u))
    THEN circle_axis(verts, offset, radius, flip, unit(u), NoAxisYet)
    ELSE surd_range(shift(project_verts(verts, u), dot(u, offset)), radius, dot(u, u))

\* lines 468-483: the loop over the side normals of the polygon, from side i
RECURSIVE circle_axes(_, _, _, _, _, _)
circle_axes(verts, offset, radius, flip, i, found) ==
    IF found = <<>> \/ i > Len(verts) THEN found
    ELSE circle_axes(verts, offset, radius, flip, i + 1,
                     circle_axis(verts, offset, radius, flip,
                                 perpendicular_axis(verts, i), found[1]))

\* lines 442-483, given the polygon's vertices, the offset of its centre
\* from the circle's and the circle's radius
circle_polygon_loop(verts, offset, radius, flip) ==
    circle_axes(verts, offset, radius, flip, 1,
                vertex_axis(verts, offset, radius, flip,
                            VAdd(verts[closest_vertex(verts, VNeg(offset))], offset)))

\* SAT.circle_polygon_test(shape_a, shape_b, flip) for the circle of a and
\* the polygon of b (with at least one vertex): the CollisionInfo or None,
\* and whether its separation is exact
circle_polygon_axes(hb, go, a, b, flip) ==
    sat_result(circle_polygon_loop(transformed_verts(hb[b]),
                                   VSub(go[b].pos, go[a].pos),
                                   transformed_radius(hb[a]), flip),
               IF flip THEN b ELSE a, IF flip THEN a ELSE b)

circle_polygon_test_flipped(hb, go, a, b, flip) ==
    circle_polygon_axes(hb, go, a, b, ~flip).info
circle_polygon_test(hb, go, a, b, flip) == circle_polygon_axes(hb, go, a, b, flip).info

\* overlap with the side normals of the first polygon only
overlap_one_way(hb, go, a, b) ==
    IF hb[a].kind = "circle"
    THEN IF hb[b].kind = "circle"
         THEN circle_circle_test(hb, go, a, b)
         ELSE circle_polygon_test(hb, go, a, b, FALSE)
    ELSE IF hb[b].kind = "circle"
    THEN circle_polygon_test(hb, go, b, a, TRUE)
    ELSE polygon_polygon_test(hb, go, a, b, FALSE)

\* line 411: the shorter of the two separations, compared by their squared
\* lengths
shorter_test(test_a_b, test_b_a) ==
    IF test_a_b = None THEN None
    ELSE IF test_b_a = None THEN None
    ELSE IF RLt(dot(test_a_b.sep, test_a_b.sep), dot(test_b_a.sep, test_b_a.sep))
    THEN test_a_b ELSE test_b_a

\* SAT.overlap(shape_a, shape_b)
overlap(hb, go, a, b) ==
    IF hb[a].kind = "circle"
    THEN IF hb[b].kind = "circle"
         THEN circle_circle_test(hb, go, a, b)
         ELSE circle_polygon_test(hb, go, a, b, FALSE)
    ELSE IF hb[b].kind = "circle"
    THEN circle_polygon_test(hb, go, b, a, TRUE)
    ELSE shorter_test(polygon_polygon_test(hb, go, a, b, FALSE),
                      polygon_polygon_test(hb, go, b, a, TRUE))

\* The manifold handle_collision reads (penetration, normal and contact
\* offsets of a CollisionInfo; the Manifold class is not among the sources):
\* penetration = |sep|, normal = unit(pos_a - pos_b), and the contact points
\* of two circles lie on the line of centres.
Manifold(info, hb, go) ==
    LET normal == unit(VSub(go[info.shape_a].pos, go[info.shape_b].pos))
    IN  [shape_a     |-> info.shape_a,
         shape_b     |-> info.shape_b,
         penetration |-> magnitude(info.sep),
         normal      |-> normal,
         contact_a   |-> VScale(normal, RNeg(hb[info.shape_a].radius)),
         contact_b   |-> VScale(normal, hb[info.shape_b].radius)]

\* Hitbox.collide(other, callback) on the hitbox of a, with other the hitbox
\* of b: the state it leaves, the CollisionInfo, whether handle_collision
\* was invoked, the exception that escaped it, the callbacks run, in order
\* (callback, self.callback, other.callback), and the value returned: the
\* function has no return statement.  (CHOOSE over a
\* one-element set names a value that is computed once.)
collide(hb, go, rbs, a, b) ==
    LET dispatch == ~hb[a].trigger /\ (~is_none(rbs, a) \/ ~is_none(rbs, b))
        callbacks == <<"callback", "self", "other">>
        after(col) ==
            IF ~col.hit
            THEN [go |-> go, rb |-> rbs, raised |-> "", info |-> col,
                  resolved |-> FALSE, calls |-> <<>>, returned |-> None]
            ELSE IF dispatch
            THEN CHOOSE r \in
                    { [go |-> res.go, rb |-> res.rb, raised |-> res.raised,
                       info |-> col, resolved |-> TRUE,
                       calls |-> IF res.raised = "" THEN callbacks ELSE <<>>,
                       returned |-> None] :
                      res \in { handle_collision(m, go, rbs) :
                                m \in {Manifold(col, hb, go)} } } : TRUE
            ELSE [go |-> go, rb |-> rbs, raised |-> "", info |-> col,
                  resolved |-> FALSE, calls |-> callbacks, returned |-> None]
    IN  CHOOSE r \in { after(col) : col \in {overlap(hb, go, a, b)} } : TRUE

(***************************************************************************)
(* Bounds and input sets                                                   *)
(***************************************************************************)
\* operations per behaviour
MaxSteps == 2

Params(static, m, vel, ang, mom, e, f, g) ==
    [static |-> static, gravity |-> g, friction |-> f,
     max_speed |-> V(4, 4), pos_correction |-> Q(1, 4), velocity |-> vel,
     ang_vel |-> ang, mass |-> m, moment |-> mom, bounciness |-> e]

\* what is constructed on game object 1: no body, or a static or dynamic
\* body of mass 0 or 2, moving, with or without spin
Bodies1 ==
    {NoBody} \cup
    { <<RigidBody(Params(k[1], k[2], vel, r, r, e, f, V(0, 1)))>> :
        k \in {<<TRUE, R(2)>>, <<FALSE, R(2)>>, <<FALSE, Zero>>},
        vel \in {V(1, 0), V(-1, 1)}, r \in {Zero, One},
        e \in {Zero, One}, f \in {Zero, One} }

\* what is constructed on game object 2: no body, or a static or dynamic
\* body at rest with spin
Bodies2 ==
    {NoBody} \cup
    { <<RigidBody(Params(st, R(2), VZero, One, One, Q(1, 2), Q(1, 2), V(0, 1)))>> :
        st \in BOOLEAN }

\* the manifolds handed to handle_collision: shallow (within the slop) and
\* deep, the contact offsets on the normal or across it
Manifolds ==
    { [shape_a |-> a, shape_b |-> b, penetration |-> p, normal |-> V(1, 0),
       contact_a |-> c[1], contact_b |-> c[2]] :
        a \in Obj, b \in Obj, p \in {Q(1, 200), One},
        c \in {<<V(1, 0), V(-1, 0)>>, <<V(0, 1), V(0, -1)>>} }

NoCol == [shape_a |-> 0, shape_b |-> 0, penetration |-> Zero, normal |-> VZero,
          contact_a |-> VZero, contact_b |-> VZero]

Op(name, a, b, col, res) ==
    [op |-> name, a |-> a, b |-> b, col |-> col, go |-> gameobj, rb |-> rigid,
     raised |-> res.raised, info |-> res.info, resolved |-> res.resolved,
     calls |-> res.calls, returned |-> res.returned]
NoRes == [raised |-> "", info |-> None, resolved |-> FALSE, calls |-> <<>>,
          returned |-> None]

GameObject(pos) == [pos |-> pos, rotation |-> Zero]

NoCont == [started |-> FALSE, impulse |-> VZero, time |-> Zero, n |-> 0,
           raised |-> ""]
\* the components a game object is given: two RigidBodys, a Circle, a Rectangle
Components == {"rb1", "rb2", "circle", "rect"}
NoOwner == [c \in Components |-> FALSE]
NoAlias == [velocity |-> FALSE, in_place |-> FALSE]
\* no SimpleTilemap has been constructed
NoTilemap == [map |-> <<>>, tiles |-> 0, tile_size |-> VZero, collision |-> <<>>,
              collider_tag |-> <<>>, uptodate |-> FALSE]
NoPoly == [op |-> "init", verts |-> <<>>, num_sides |-> 0, raised |-> "",
           result |-> <<>>]

(***************************************************************************)
(* Resolution: fixed_update ticks and handle_collision calls on two game   *)
(* objects                                                                 *)
(***************************************************************************)
InitResolve ==
    /\ gameobj = [o \in Obj |-> GameObject(IF o = 1 THEN V(0, 0) ELSE V(3, 0))]
    /\ \E b1 \in Bodies1, b2 \in Bodies2 : rigid = (1 :> b1 @@ 2 :> b2)
    /\ hitbox = [o \in Obj |-> Circle(R(2), One, FALSE)]
    /\ start = [go |-> gameobj, rb |-> rigid]
    /\ last = Op("init", 0, 0, NoCol, NoRes)
    /\ steps = 0
    /\ sched = <<>>
    /\ cont = NoCont
    /\ poly = NoPoly
    /\ components = <<>>
    /\ comp_gameobj = NoOwner
    /\ alias = NoAlias
    /\ simple_tilemap = NoTilemap

\* GameObject.fixed_update(): the fixed_update of the RigidBody it holds
FixedUpdate(o) ==
    /\ steps < MaxSteps
    /\ ~is_none(rigid, o)
    /\ LET r == fixed_update(get(rigid, o), gameobj[o])
       IN  /\ rigid' = [rigid EXCEPT ![o] = <<r.rb>>]
           /\ gameobj' = [gameobj EXCEPT ![o] = r.go]
    /\ last' = Op("fixed_update", o, o, NoCol, NoRes)
    /\ steps' = steps + 1
    /\ UNCHANGED <<hitbox, start, sched, cont, poly, components,
                 comp_gameobj, alias,
                 simple_tilemap>>

\* RigidBody.handle_collision(col) on a manifold between the two objects
HandleCollision(col) ==
    /\ steps < MaxSteps
    /\ col.shape_a # col.shape_b
    /\ LET r == handle_collision(col, gameobj, rigid)
       IN  /\ rigid' = r.rb
           /\ gameobj' = r.go
           /\ last' = Op("handle_collision", col.shape_a, col.shape_b, col,
                         [NoRes EXCEPT !.raised = r.raised, !.resolved = TRUE])
    /\ steps' = steps + 1
    /\ UNCHANGED <<hitbox, start, sched, cont, poly, components,
                 comp_gameobj, alias,
                 simple_tilemap>>

NextResolve ==
    \/ \E o \in Obj : FixedUpdate(o)
    \/ \E col \in Manifolds : HandleCollision(col)

SpecResolve == InitResolve /\ [][NextResolve]_vars

(***************************************************************************)
(* Properties of the resolver                                              *)
(***************************************************************************)
Present(rbs, o) == rbs[o] # NoBody
\* rv . normal of a manifold in a state, as lines 197-200 compute it
VelAlongNorm(col, rbs) ==
    dot(VSub(IF Present(rbs, col.shape_a)
             THEN VSub(rbs[col.shape_a][1].velocity,
                       perpendicular(col.contact_b, rbs[col.shape_a][1].ang_vel))
             ELSE VZero,
             IF Present(rbs, col.shape_b)
             THEN VSub(rbs[col.shape_b][1].velocity,
                       perpendicular(col.contact_a, rbs[col.shape_b][1].ang_vel))
             ELSE VZero),
        col.normal)
LastResolve == last.op = "handle_collision"
Dynamic(rbs, o) == Present(rbs, o) /\ ~rbs[o][1].static
Static(rbs, o) == Present(rbs, o) /\ rbs[o][1].static

\* C3: handle_collision on a manifold whose relative contact velocity has
\* rv . normal > 0 returns normally and leaves every body's velocity and
\* angular velocity and every game object's position unchanged, whatever the
\* penetration, the masses and the friction.
C3_SeparatingLeavesAllUnchanged ==
    (LastResolve /\ RLt(Zero, VelAlongNorm(last.col, last.rb)))
        => /\ last.raised = ""
           /\ \A o \in Obj :
                /\ gameobj[o].pos = last.go[o].pos
                /\ Present(rigid, o) = Present(last.rb, o)
                /\ Present(rigid, o) =>
                     /\ rigid[o][1].velocity = last.rb[o][1].velocity
                     /\ rigid[o][1].ang_vel = last.rb[o][1].ang_vel

\* C3 happens: a deep, separating manifold between two dynamic bodies of
\* positive mass was resolved
C3_Witness ==
    /\ LastResolve
    /\ RLt(Zero, VelAlongNorm(last.col, last.rb))
    /\ RLt(slop, last.col.penetration)
    /\ \A o \in Obj : Dynamic(last.rb, o) /\ last.rb[o][1].inv_mass # Zero

\* the two sides of a resolved manifold: one static body, one dynamic body
StaticVsDynamic(col, rbs) ==
    \/ Static(rbs, col.shape_a) /\ Dynamic(rbs, col.shape_b)
    \/ Dynamic(rbs, col.shape_a) /\ Static(rbs, col.shape_b)
\* the velocity of shape_a's body relative to shape_b's, along the normal
RelNormalVel(col, rbs) ==
    dot(VSub(rbs[col.shape_a][1].velocity, rbs[col.shape_b][1].velocity),
        col.normal)
Restitution(col, rbs) ==
    RMax(rbs[col.shape_a][1].bounciness, rbs[col.shape_b][1].bounciness)
\* the contact offsets lie on the normal
HeadOn(col) ==
    cross(col.contact_a, col.normal) = Zero /\ cross(col.contact_b, col.normal) = Zero
PositiveMasses(col, rbs) ==
    \A o \in {col.shape_a, col.shape_b} : Dynamic(rbs, o) => rbs[o][1].inv_mass # Zero

\* a body constructed static has, in every later state, the velocity, the
\* angular velocity, the position and the rotation it was constructed with
StaticNeverMoves ==
    \A o \in Obj : Static(start.rb, o) =>
        /\ Present(rigid, o)
        /\ rigid[o][1].velocity = start.rb[o][1].velocity
        /\ rigid[o][1].ang_vel = start.rb[o][1].ang_vel
        /\ gameobj[o].pos = start.go[o].pos
        /\ gameobj[o].rotation = start.go[o].rotation

\* C4 as claimed: a static body never moves, and every approaching
\* static-vs-dynamic collision leaves the dynamic body with -e times the
\* incoming relative normal velocity.
C4_Original ==
    /\ StaticNeverMoves
    /\ (LastResolve /\ StaticVsDynamic(last.col, last.rb)
            /\ RLt(VelAlongNorm(last.col, last.rb), Zero))
        => RelNormalVel(last.col, rigid)
             = RMul(RNeg(Restitution(last.col, last.rb)),
                    VelAlongNorm(last.col, last.rb))

\* C4 (amended): a body constructed static keeps its velocity, angular
\* velocity, position and rotation through every sequence of fixed_update
\* ticks and handle_collision calls; and in an approaching static-vs-dynamic
\* collision whose contact offsets lie on the normal and whose dynamic body
\* has positive mass, the relative velocity along the normal becomes -e times
\* the incoming one, e the larger bounciness.
C4_StaticNeverMoves_WallBounce ==
    /\ StaticNeverMoves
    /\ (LastResolve /\ StaticVsDynamic(last.col, last.rb)
            /\ RLt(VelAlongNorm(last.col, last.rb), Zero)
            /\ HeadOn(last.col) /\ PositiveMasses(last.col, last.rb))
        => RelNormalVel(last.col, rigid)
             = RMul(RNeg(Restitution(last.col, last.rb)),
                    VelAlongNorm(last.col, last.rb))

\* C4 happens: after an earlier operation, a dynamic body of positive mass
\* ran head-on into a static one and bounced (e > 0)
C4_Witness ==
    /\ steps = 2
    /\ LastResolve /\ StaticVsDynamic(last.col, last.rb)
    /\ RLt(VelAlongNorm(last.col, last.rb), Zero)
    /\ HeadOn(last.col) /\ PositiveMasses(last.col, last.rb)
    /\ RLt(Zero, Restitution(last.col, last.rb))
    /\ rigid # last.rb

\* C5: handle_collision on approaching bodies (rv . normal <= 0) runs to
\* completion for every combination of present and absent, static and
\* dynamic bodies, zero and positive mass and friction.
C5_NeverRaises ==
    (LastResolve /\ RLe(VelAlongNorm(last.col, last.rb), Zero))
        => last.raised = ""

\* the tangent of line 241, before it is given magnitude 1
Tangent(col, rbs) ==
    VSub(relative_velocity(col, rbs, col.shape_b, col.shape_a),
         VScale(col.normal,
                dot(relative_velocity(col, rbs, col.shape_b, col.shape_a),
                    col.normal)))
\* the friction coefficient of lines 229-234 (rb_a is shape_b's body)
Mu(col, rbs) ==
    IF ~Present(rbs, col.shape_b) THEN RSq(rbs[col.shape_a][1].friction)
    ELSE IF ~Present(rbs, col.shape_a) THEN RSq(rbs[col.shape_b][1].friction)
    ELSE RMin(RSq(rbs[col.shape_a][1].friction), RSq(rbs[col.shape_b][1].friction))
\* the bodies with their friction set to 0: handle_collision then returns at
\* line 238, after the normal impulse alone
WithoutFriction(rbs) ==
    [o \in Obj |-> IF Present(rbs, o)
                   THEN <<[rbs[o][1] EXCEPT !.friction = Zero]>> ELSE NoBody]
\* the call reaches the friction coefficient: some body is present, and
\* line 208 is not the one that reads rb_b.inv_moment of an absent rb_b
ReachesFriction(col, rbs) ==
    /\ Present(rbs, col.shape_a) \/ Present(rbs, col.shape_b)
    /\ Present(rbs, col.shape_a) \/ RLt(Zero, VelAlongNorm(col, rbs))
SameMotion(go1, rbs1, go2, rbs2) ==
    \A o \in Obj :
        /\ go1[o] = go2[o]
        /\ Present(rbs1, o) = Present(rbs2, o)
        /\ Present(rbs1, o) =>
             /\ rbs1[o][1].velocity = rbs2[o][1].velocity
             /\ rbs1[o][1].ang_vel = rbs2[o][1].ang_vel

CollideBodies1 ==
    {NoBody} \cup
    { <<RigidBody(Params(st, R(2), vel, Zero, One, e, One, VZero))>> :
        st \in BOOLEAN, vel \in {V(1, 0), V(-1, 0)}, e \in {Zero, One} }
CollideBodies2 ==
    {NoBody} \cup
    { <<RigidBody(Params(st, One, VZero, Zero, One, Zero, One, VZero))>> :
        st \in BOOLEAN }

InitCollide ==
    /\ \E d \in {3, 4, 5} :
         gameobj = [o \in Obj |-> GameObject(IF o = 1 THEN V(0, 0) ELSE V(d, 0))]
    /\ \E b1 \in CollideBodies1, b2 \in CollideBodies2 : rigid = (1 :> b1 @@ 2 :> b2)
    /\ \E t1 \in BOOLEAN, t2 \in BOOLEAN :
         hitbox = (1 :> Circle(R(2), One, t1) @@ 2 :> Circle(R(2), One, t2))
    /\ start = [go |-> gameobj, rb |-> rigid]
    /\ last = Op("init", 0, 0, NoCol, NoRes)
    /\ steps = 0
    /\ sched = <<>>
    /\ cont = NoCont
    /\ poly = NoPoly
    /\ components = <<>>
    /\ comp_gameobj = NoOwner
    /\ alias = NoAlias
    /\ simple_tilemap = NoTilemap

\* hitbox[a].collide(hitbox[b], callback)
Collide(a, b) ==
    /\ steps < MaxSteps
    /\ a # b
    /\ LET r == collide(hitbox, gameobj, rigid, a, b)
       IN  /\ rigid' = r.rb
           /\ gameobj' = r.go
           /\ last' = Op("collide", a, b, NoCol,
                         [raised |-> r.raised, info |-> r.info,
                          resolved |-> r.resolved, calls |-> r.calls,
                          returned |-> r.returned])
    /\ steps' = steps + 1
    /\ UNCHANGED <<hitbox, start, sched, cont, poly, components,
                 comp_gameobj, alias,
                 simple_tilemap>>

NextCollide ==
    \/ \E a \in Obj, b \in Obj : Collide(a, b)
    \/ \E o \in Obj : FixedUpdate(o)

SpecCollide == InitCollide /\ [][NextCollide]_vars

\* every distance and separation the circle test measured was exact
ExactGeometry ==
    /\ HasExactMagnitude(VSub(gameobj[2].pos, gameobj[1].pos))
    /\ HasExactMagnitude(last.info.sep)

LastCollide == last.op = "collide"
BodiesUnchanged ==
    /\ rigid = last.rb
    /\ gameobj = last.go

\* C1: whenever the shapes of a.collide(b) overlap and a or b is a trigger,
\* handle_collision is not invoked and no body's velocity or angular
\* velocity and no game object's position changes.
C1_TriggerNeverResolves ==
    (LastCollide /\ last.info.hit
        /\ (hitbox[last.a].trigger \/ hitbox[last.b].trigger))
        => ~last.resolved /\ BodiesUnchanged

\* C2: a.collide(b, cb) on overlapping shapes runs exactly the three
\* callbacks cb, a.callback, b.callback, once each and in this order, after
\* the resolution; on shapes that do not overlap it runs no callback and
\* changes no body.
C2_ThreeCallbacksInOrder ==
    LastCollide =>
        IF last.info.hit
        THEN last.calls = <<"callback", "self", "other">>
        ELSE last.calls = <<>> /\ BodiesUnchanged

\* C18: a.collide(b) that returns normally returns the CollisionInfo that
\* SAT.overlap produced when the shapes overlap, and None when they do not.
C18_CollideReturnsInfo ==
    (LastCollide /\ last.raised = "") =>
        last.returned = (IF last.info.hit THEN last.info ELSE None)

(***************************************************************************)
(* Detection: SAT.overlap on two circles                                   *)
(***************************************************************************)
\* where the second circle is put: on an axis or on a 3-4-5 diagonal, so
\* that the centre distance is 2, 3, 4, 5 or 10
Centres == {V(2, 0), V(0, 3), V(-4, 0), V(3, 4), V(0, -5), V(6, 8)}
Radii == {One, R(2)}
Scales == {One, R(2)}

InitSAT ==
    /\ \E c \in Centres :
         gameobj = [o \in Obj |-> GameObject(IF o = 1 THEN V(0, 0) ELSE c)]
    /\ rigid = [o \in Obj |-> NoBody]
    /\ \E r1 \in Radii, r2 \in Radii, s1 \in Scales, s2 \in Scales :
         hitbox = (1 :> Circle(r1, s1, FALSE) @@ 2 :> Circle(r2, s2, FALSE))
    /\ start = [go |-> gameobj, rb |-> rigid]
    /\ last = Op("init", 0, 0, NoCol, NoRes)
    /\ steps = 0
    /\ sched = <<>>
    /\ cont = NoCont
    /\ poly = NoPoly
    /\ components = <<>>
    /\ comp_gameobj = NoOwner
    /\ alias = NoAlias
    /\ simple_tilemap = NoTilemap

\* SAT.overlap(hitbox[a], hitbox[b])
Overlap(a, b) ==
    /\ steps < MaxSteps
    /\ a # b
    /\ last' = Op("overlap", a, b, NoCol,
                  [NoRes EXCEPT !.info = overlap(hitbox, gameobj, a, b)])
    /\ steps' = steps + 1
    /\ UNCHANGED <<gameobj, rigid, hitbox, start, sched, cont, poly, components,
                 comp_gameobj, alias,
                 simple_tilemap>>

NextSAT == \E a \in Obj, b \in Obj : Overlap(a, b)

SpecSAT == InitSAT /\ [][NextSAT]_vars

LastOverlap == last.op = "overlap"
Distance == magnitude(VSub(gameobj[2].pos, gameobj[1].pos))
RadiusSum == RAdd(hitbox[1].radius, hitbox[2].radius)
ScaledRadiusSum ==
    RAdd(RMul(hitbox[1].radius, hitbox[1].scale),
         RMul(hitbox[2].radius, hitbox[2].scale))
\* the unit vector from the centre of b to the centre of a
Toward(a, b) == unit(VSub(gameobj[a].pos, gameobj[b].pos))

\* C6 as claimed: at a centre distance equal to the radius sum, and at every
\* greater one, SAT.overlap returns None.
C6_Original ==
    (LastOverlap /\ RLe(RadiusSum, Distance)) => last.info = None

\* C6 (amended): at a centre distance strictly greater than the radius sum
\* SAT.overlap returns None; at a distance equal to the radius sum it
\* returns a CollisionInfo of the two circles whose separation is the zero
\* vector.
C6_TangentCirclesCollideWithZeroSeparation ==
    LastOverlap =>
        /\ RLt(RadiusSum, Distance) => last.info = None
        /\ RadiusSum = Distance =>
             last.info = CollisionInfo(last.a, last.b, VZero)

\* C6 happens: overlap was called on two tangent circles
C6_Witness == LastOverlap /\ RadiusSum = Distance

\* C7: at a centre distance d < R, with R the sum of the scaled radii,
\* SAT.overlap(A, B) returns a CollisionInfo whose separation has magnitude
\* R - d and points from B's centre to A's.
C7_ScaledRadiiDecide ==
    (LastOverlap /\ RLt(Distance, ScaledRadiusSum))
        => /\ last.info.hit
           /\ last.info.sep = VScale(Toward(last.a, last.b),
                                     RSub(ScaledRadiusSum, Distance))

(***************************************************************************)
(* Continuous forces: add_cont_force and the frames that run its callback  *)
(***************************************************************************)
\* the methods and properties class RigidBody defines
RigidBodyMethods ==
    {"mass", "moment", "physics", "add_force", "add_cont_force", "fixed_update",
     "clone", "handle_collision"}

\* RigidBody.add_cont_force(impulse, time): the body, the callbacks handed to
\* Time.delayed_frames and the number of add_force calls made
add_cont_force(rb, impulse, time) ==
    IF RLe(time, Zero)
    THEN [rb |-> rb, scheduled |-> <<>>, forces |-> 0]
    ELSE [rb |-> add_force(rb, impulse),
          \* lambda: self.add_impulse(impulse, time - Time.delta_time)
          scheduled |-> <<[delay |-> 1, fn |-> "add_impulse",
                           impulse |-> impulse, time |-> time]>>,
          forces |-> 1]

\* the scheduled lambda, called: the method it names is looked up on the
\* body, then called with (impulse, time - Time.delta_time)
call_scheduled(rb, task) ==
    IF task.fn \notin RigidBodyMethods
    THEN [rb |-> rb, scheduled |-> <<>>, forces |-> 0, raised |-> "AttributeError"]
    ELSE IF task.fn = "add_cont_force"
    THEN [raised |-> ""] @@
         add_cont_force(rb, task.impulse, RSub(task.time, delta_time))
    ELSE [rb |-> rb, scheduled |-> <<>>, forces |-> 0, raised |-> "TypeError"]

ForceBodies ==
    { <<RigidBody(Params(FALSE, m, vel, Zero, One, Zero, Zero, VZero))>> :
        m \in {One, R(2)}, vel \in {VZero, V(1, 0), V(0, -1)} }
Forces == {V(1, 0), V(0, 2), V(-2, 2)}
Durations == {R(-1), Zero, One, Q(3, 2), R(2), R(3)}

InitForce ==
    /\ gameobj = [o \in Obj |-> GameObject(IF o = 1 THEN V(0, 0) ELSE V(3, 0))]
    /\ \E b1 \in ForceBodies : rigid = (1 :> b1 @@ 2 :> NoBody)
    /\ hitbox = [o \in Obj |-> Circle(R(2), One, FALSE)]
    /\ start = [go |-> gameobj, rb |-> rigid]
    /\ last = Op("init", 0, 0, NoCol, NoRes)
    /\ steps = 0
    /\ sched = <<>>
    /\ cont = NoCont
    /\ poly = NoPoly
    /\ components = <<>>
    /\ comp_gameobj = NoOwner
    /\ alias = NoAlias
    /\ simple_tilemap = NoTilemap

\* rigid[1].add_cont_force(impulse, time), once
AddContForce(impulse, time) ==
    /\ ~cont.started
    /\ LET r == add_cont_force(get(rigid, 1), impulse, time)
       IN  /\ rigid' = [rigid EXCEPT ![1] = <<r.rb>>]
           /\ sched' = sched \o r.scheduled
           /\ cont' = [started |-> TRUE, impulse |-> impulse, time |-> time,
                       n |-> r.forces, raised |-> ""]
    /\ last' = Op("add_cont_force", 1, 1, NoCol, NoRes)
    /\ steps' = steps + 1
    /\ UNCHANGED <<gameobj, hitbox, start, poly, components,
                 comp_gameobj, alias,
                 simple_tilemap>>

\* one frame of the scheduler: the callback delayed by one frame is called
Frame ==
    /\ sched # <<>>
    /\ LET r == call_scheduled(get(rigid, 1), Head(sched))
       IN  /\ rigid' = [rigid EXCEPT ![1] = <<r.rb>>]
           /\ sched' = Tail(sched) \o r.scheduled
           /\ cont' = [cont EXCEPT !.n = @ + r.forces, !.raised = r.raised]
    /\ last' = Op("frame", 1, 1, NoCol, NoRes)
    /\ steps' = steps + 1
    /\ UNCHANGED <<gameobj, hitbox, start, poly, components,
                 comp_gameobj, alias,
                 simple_tilemap>>

NextForce ==
    \/ \E f \in Forces, t \in Durations : AddContForce(f, t)
    \/ Frame

SpecForce == InitForce /\ [][NextForce]_vars

Ceil(q) == IF q[1] % q[2] = 0 THEN q[1] \div q[2] ELSE (q[1] \div q[2]) + 1

\* C8: add_cont_force(F, D) with D <= 0 applies nothing and schedules
\* nothing; with D > 0 it applies F at once and once per following frame,
\* and when its chain of callbacks has ended F has been applied exactly
\* ceil(D / delta) times and no callback has raised.
C8_AppliedCeilTimes ==
    cont.started =>
        /\ RLe(cont.time, Zero) => (cont.n = 0 /\ sched = <<>>)
        /\ RLt(Zero, cont.time) => cont.n >= 1
        /\ (RLt(Zero, cont.time) /\ sched = <<>>)
             => /\ cont.n = Ceil(RDiv(cont.time, delta_time))
                /\ cont.raised = ""

(***************************************************************************)
(* Mass and moment: the constructor, the setters and add_force             *)
(***************************************************************************)
Masses == {Zero, One, R(2)}

InitMass ==
    /\ gameobj = [o \in Obj |-> GameObject(IF o = 1 THEN V(0, 0) ELSE V(3, 0))]
    /\ \E st \in BOOLEAN, m \in Masses, i \in Masses :
         rigid = (1 :> <<RigidBody(Params(st, m, VZero, Zero, i, Zero, Zero, VZero))>>
                  @@ 2 :> NoBody)
    /\ hitbox = [o \in Obj |-> Circle(R(2), One, FALSE)]
    /\ start = [go |-> gameobj, rb |-> rigid]
    /\ last = Op("init", 0, 0, NoCol, NoRes)
    /\ steps = 0
    /\ sched = <<>>
    /\ cont = NoCont
    /\ poly = NoPoly
    /\ components = <<>>
    /\ comp_gameobj = NoOwner
    /\ alias = NoAlias
    /\ simple_tilemap = NoTilemap

\* rigid[1].mass = new
SetMass(new) ==
    /\ steps < MaxSteps
    /\ rigid' = [rigid EXCEPT ![1] = <<set_mass(get(rigid, 1), new)>>]
    /\ last' = Op("mass", 1, 1, NoCol, NoRes)
    /\ steps' = steps + 1
    /\ UNCHANGED <<gameobj, hitbox, start, sched, cont, poly, components,
                 comp_gameobj, alias,
                 simple_tilemap>>

\* rigid[1].moment = new
SetMoment(new) ==
    /\ steps < MaxSteps
    /\ rigid' = [rigid EXCEPT ![1] = <<set_moment(get(rigid, 1), new)>>]
    /\ last' = Op("moment", 1, 1, NoCol, NoRes)
    /\ steps' = steps + 1
    /\ UNCHANGED <<gameobj, hitbox, start, sched, cont, poly, components,
                 comp_gameobj, alias,
                 simple_tilemap>>

\* rigid[1].add_force(force)
AddForce(force) ==
    /\ steps < MaxSteps
    /\ rigid' = [rigid EXCEPT ![1] = <<add_force(get(rigid, 1), force)>>]
    /\ last' = Op("add_force", 1, 1, NoCol, NoRes)
    /\ steps' = steps + 1
    /\ UNCHANGED <<gameobj, hitbox, start, sched, cont, poly, components,
                 comp_gameobj, alias,
                 simple_tilemap>>

NextMass ==
    \/ \E new \in Masses : SetMass(new)
    \/ \E new \in Masses : SetMoment(new)
    \/ \E f \in Forces : AddForce(f)

SpecMass == InitMass /\ [][NextMass]_vars

\* C9: a body constructed static has inv_mass = 0 and inv_moment = 0 in
\* every state reached through the mass and moment setters, so that
\* add_force never changes its velocity.
C9_StaticInverseMassZero ==
    Static(rigid, 1) =>
        /\ rigid[1][1].inv_mass = Zero
        /\ rigid[1][1].inv_moment = Zero
        /\ rigid[1][1].velocity = start.rb[1][1].velocity

(***************************************************************************)
(* Polygons: the constructor and generate_polygon                          *)
(***************************************************************************)
\* vertices per constructed polygon, sides per generated polygon
MaxVerts == 4
MaxSides == 5
Points == {V(0, 0), V(1, 0), V(0, 1)}

RECURSIVE SeqsUpTo(_, _)
SeqsUpTo(S, n) ==
    IF n = 0 THEN {<<>>}
    ELSE LET shorter == SeqsUpTo(S, n - 1)
         IN  shorter \cup {Append(q, x) : q \in {r \in shorter : Len(r) = n - 1}, x \in S}

\* Polygon.__init__(options): the fields rest on the options as given
Polygon(verts, rotation, scale, trigger) ==
    [raised |-> "",
     result |-> <<[kind |-> "polygon", verts |-> verts, rotation |-> rotation,
                   scale |-> scale, trigger |-> trigger]>>]

\* Polygon.generate_polygon(num_sides, radius); vertex i is at the angle
\* i * rotangle + (pi - rotangle) / 2, rotangle = 2 pi / num_sides, kept here
\* as a fraction of pi, at the given radius
generate_polygon(num_sides, radius) ==
    IF num_sides < 3
    THEN [raised |-> "SideError", result |-> <<>>]
    ELSE [raised |-> "",
          result |-> [k \in 1..num_sides |->
                        [angle_over_pi |-> Q(4 * (k - 1) + num_sides - 2, 2 * num_sides),
                         radius |-> radius]]]

InitPolygon ==
    /\ gameobj = [o \in Obj |-> GameObject(IF o = 1 THEN V(0, 0) ELSE V(3, 0))]
    /\ rigid = [o \in Obj |-> NoBody]
    /\ hitbox = [o \in Obj |-> Circle(R(2), One, FALSE)]
    /\ start = [go |-> gameobj, rb |-> rigid]
    /\ last = Op("init", 0, 0, NoCol, NoRes)
    /\ steps = 0
    /\ sched = <<>>
    /\ cont = NoCont
    /\ poly = NoPoly
    /\ components = <<>>
    /\ comp_gameobj = NoOwner
    /\ alias = NoAlias
    /\ simple_tilemap = NoTilemap

\* Polygon({"verts": verts})
NewPolygon(verts) ==
    /\ steps < MaxSteps
    /\ LET r == Polygon(verts, Zero, One, FALSE)
       IN  poly' = [op |-> "Polygon", verts |-> verts, num_sides |-> 0,
                    raised |-> r.raised, result |-> r.result]
    /\ steps' = steps + 1
    /\ UNCHANGED <<gameobj, rigid, hitbox, start, last, sched, cont, components,
                 comp_gameobj, alias,
                 simple_tilemap>>

\* Polygon.generate_polygon(num_sides, radius)
GeneratePolygon(num_sides, radius) ==
    /\ steps < MaxSteps
    /\ LET r == generate_polygon(num_sides, radius)
       IN  poly' = [op |-> "generate_polygon", verts |-> <<>>,
                    num_sides |-> num_sides, raised |-> r.raised,
                    result |-> r.result]
    /\ steps' = steps + 1
    /\ UNCHANGED <<gameobj, rigid, hitbox, start, last, sched, cont, components,
                 comp_gameobj, alias,
                 simple_tilemap>>

NextPolygon ==
    \/ \E verts \in SeqsUpTo(Points, MaxVerts) : NewPolygon(verts)
    \/ \E n \in 0..MaxSides, radius \in Radii : GeneratePolygon(n, radius)

SpecPolygon == InitPolygon /\ [][NextPolygon]_vars

\* C10: constructing a Polygon from fewer than 3 vertices raises and yields
\* no Polygon; generate_polygon(num_sides) raises SideError for
\* num_sides < 3 and otherwise returns exactly num_sides vertices.
C10_FewVerticesRejected ==
    /\ (poly.op = "Polygon" /\ Len(poly.verts) < 3)
         => (poly.raised # "" /\ poly.result = <<>>)
    /\ poly.op = "generate_polygon" =>
         IF poly.num_sides < 3
         THEN poly.raised = "SideError"
         ELSE poly.raised = "" /\ Len(poly.result) = poly.num_sides

(***************************************************************************)
(* Detection on polygons: SAT.overlap and polygon_polygon_test on circles, *)
(* rectangles and a right triangle at integer positions                    *)
(***************************************************************************)
Rectangle(w, h, rotation, scale) ==
    Polygon(generate_rect(R(w), R(h)), R(rotation), R(scale), FALSE).result[1]

\* the shapes: a circle of radius 10, squares of side 1, 2 and 20, a 4 x 2
\* rectangle, a unit square scaled by 2 and turned by 90 degrees, and a
\* triangle with sides 3, 4 and 5
Shapes ==
    {Circle(R(10), One, FALSE),
     Rectangle(1, 1, 0, 1), Rectangle(2, 2, 0, 1), Rectangle(20, 20, 0, 1),
     Rectangle(4, 2, 0, 1), Rectangle(1, 1, 90, 2),
     Polygon(<<V(0, 0), V(4, 0), V(0, 3)>>, Zero, One, FALSE).result[1]}

\* where the second shape is put
Places ==
    {V(c, 0) : c \in {1, 2, 3, 11, 15, 19, 20, 21, 25}}
        \cup {V(0, 1), V(2, 2), V(3, 2), V(-3, 1), V(0, -4)}

IsPolygon(o) == hitbox[o].kind = "polygon"
IsCircle(o) == hitbox[o].kind = "circle"

InitShapes ==
    /\ \E c \in Places :
         gameobj = [o \in Obj |-> GameObject(IF o = 1 THEN V(0, 0) ELSE c)]
    /\ rigid = [o \in Obj |-> NoBody]
    /\ \E s1 \in Shapes, s2 \in Shapes : hitbox = (1 :> s1 @@ 2 :> s2)
    /\ start = [go |-> gameobj, rb |-> rigid]
    /\ last = Op("init", 0, 0, NoCol, NoRes)
    /\ steps = 0
    /\ sched = <<>>
    /\ cont = NoCont
    /\ poly = NoPoly
    /\ components = <<>>
    /\ comp_gameobj = NoOwner
    /\ alias = NoAlias
    /\ simple_tilemap = NoTilemap

\* SAT.polygon_polygon_test(hitbox[a], hitbox[b], flip)
PolygonPolygonTest(a, b, flip) ==
    /\ steps < MaxSteps
    /\ a # b
    /\ IsPolygon(a) /\ IsPolygon(b)
    /\ last' = [op |-> "polygon_polygon_test", a |-> a, b |-> b, flip |-> flip,
                info |-> polygon_polygon_test(hitbox, gameobj, a, b, flip)]
    /\ steps' = steps + 1
    /\ UNCHANGED <<gameobj, rigid, hitbox, start, sched, cont, poly, components,
                 comp_gameobj, alias,
                 simple_tilemap>>

NextShapes ==
    \/ \E a \in Obj, b \in Obj : Overlap(a, b)
    \/ \E a \in Obj, b \in Obj, flip \in BOOLEAN : PolygonPolygonTest(a, b, flip)

SpecShapes == InitShapes /\ [][NextShapes]_vars

LastPolygonTest == last.op = "polygon_polygon_test"
LastPolygonOverlap == LastOverlap /\ IsPolygon(1) /\ IsPolygon(2)

\* C11: for polygons P and Q, SAT.overlap(P, Q) is None exactly when
\* SAT.overlap(Q, P) is None, and polygon_polygon_test(P, Q, flip) is None
\* with flip = True exactly when it is None with flip = False.
C11_PolygonDetectionSymmetric ==
    /\ LastPolygonOverlap =>
         ((last.info = None) <=> (overlap(hitbox, gameobj, last.b, last.a) = None))
    /\ LastPolygonTest =>
         ((last.info = None) <=>
            (polygon_polygon_test(hitbox, gameobj, last.a, last.b, ~last.flip) = None))

\* C11 happens: polygon_polygon_test with flip = True found two rectangles
\* apart
C11_Witness ==
    /\ LastPolygonTest /\ last.flip
    /\ last.info = None
    /\ Len(hitbox[1].verts) = 4 /\ Len(hitbox[2].verts) = 4

\* two squares of the given side, the first at (0,0), the second at (1,0),
\* were handed to SAT.overlap
SquaresOneApart(side) ==
    /\ LastOverlap
    /\ hitbox[1] = Rectangle(side, side, 0, 1)
    /\ hitbox[2] = Rectangle(side, side, 0, 1)
    /\ gameobj[2].pos = V(1, 0)

\* C12 as claimed: for two axis-aligned unit squares centred at (0,0) and
\* (1,0), SAT.overlap returns a CollisionInfo whose separation has magnitude
\* 1 and lies along the x-axis.
C12_Original ==
    SquaresOneApart(1) =>
        /\ last.info.hit
        /\ last.info.sep \in {V(1, 0), V(-1, 0)}

\* C12 (amended): for two axis-aligned unit squares centred at (0,0) and
\* (1,0), which touch along one side, SAT.overlap returns a CollisionInfo of
\* the two shapes whose separation is the zero vector (penetration 0); it is
\* for squares of side 2 at these centres that the separation has magnitude
\* 1 along the x-axis, pointing from the second shape to the first.
C12_UnitSquaresTouch ==
    /\ SquaresOneApart(1) => last.info = CollisionInfo(last.a, last.b, VZero)
    /\ SquaresOneApart(2) =>
         last.info = CollisionInfo(last.a, last.b, Toward(last.a, last.b))

\* C12 happens: overlap was called on the unit squares at (0,0) and (1,0)
C12_Witness == SquaresOneApart(1) /\ last.a = 1 /\ last.info.hit

\* the circle of radius 10 at (0,0) was handed to SAT.overlap as the first
\* shape, the square of side 20 centred at (c, 0), c > 10, as the second
CircleThenSquare ==
    /\ LastOverlap /\ last.a = 1
    /\ hitbox[1] = Circle(R(10), One, FALSE)
    /\ hitbox[2] = Rectangle(20, 20, 0, 1)
    /\ gameobj[2].pos.y = Zero
    /\ RLt(R(10), gameobj[2].pos.x)

\* C13: for the circle of radius 10 at (0,0) as first argument and the
\* axis-aligned square of side 20 centred at (c, 0), 10 < c, as second,
\* SAT.overlap returns None when c > 20 (so at c = 25) and, when c < 20 (so
\* at c = 15, penetration 5), a CollisionInfo whose separation has magnitude
\* 20 - c and points along (-1, 0), away from the square.
C13_CircleAgainstSquare ==
    CircleThenSquare =>
        LET c == gameobj[2].pos.x
        IN  /\ RLt(R(20), c) => last.info = None
            /\ RLt(c, R(20)) =>
                 /\ last.info = CollisionInfo(1, 2, Vec(RNeg(RSub(R(20), c)), Zero))
                 /\ circle_polygon_axes(hitbox, gameobj, 1, 2, FALSE).exact

\* C13 happens: the square was centred at (15, 0) and the separation
\* returned is (-5, 0)
C13_Witness ==
    /\ CircleThenSquare
    /\ gameobj[2].pos = V(15, 0)
    /\ last.info.hit /\ last.info.sep = V(-5, 0)

(***************************************************************************)
(* Head-on collisions: two dynamic bodies without spin, moving along the   *)
(* x-axis or across it                                                     *)
(***************************************************************************)
HeadOnBodies1 ==
    { <<RigidBody(Params(FALSE, m, vel, Zero, One, e, f, VZero))>> :
        m \in {One, R(2)}, vel \in {V(1, 0), V(1, 1)},
        e \in {Zero, Q(1, 2), One}, f \in {Zero, One} }
HeadOnBodies2 ==
    { <<RigidBody(Params(FALSE, R(2), vel, Zero, One, e, One, VZero))>> :
        vel \in {VZero, V(-1, 0)}, e \in {Zero, Q(1, 2)} }

InitHeadOn ==
    /\ gameobj = [o \in Obj |-> GameObject(IF o = 1 THEN V(0, 0) ELSE V(3, 0))]
    /\ \E b1 \in HeadOnBodies1, b2 \in HeadOnBodies2 : rigid = (1 :> b1 @@ 2 :> b2)
    /\ hitbox = [o \in Obj |-> Circle(R(2), One, FALSE)]
    /\ start = [go |-> gameobj, rb |-> rigid]
    /\ last = Op("init", 0, 0, NoCol, NoRes)
    /\ steps = 0
    /\ sched = <<>>
    /\ cont = NoCont
    /\ poly = NoPoly
    /\ components = <<>>
    /\ comp_gameobj = NoOwner
    /\ alias = NoAlias
    /\ simple_tilemap = NoTilemap

SpecHeadOn == InitHeadOn /\ [][NextResolve]_vars

\* the manifold just resolved was head-on: two dynamic bodies of positive
\* mass and without spin, the contact offsets and the relative velocity on
\* the normal, the bodies approaching
HeadOnCollision ==
    /\ LastResolve
    /\ \A o \in Obj : /\ Dynamic(last.rb, o)
                      /\ last.rb[o][1].inv_mass # Zero
                      /\ last.rb[o][1].ang_vel = Zero
    /\ HeadOn(last.col)
    /\ cross(VSub(last.rb[1][1].velocity, last.rb[2][1].velocity),
             last.col.normal) = Zero
    /\ RLt(RelNormalVel(last.col, last.rb), Zero)
EqualMasses == last.rb[1][1].inv_mass = last.rb[2][1].inv_mass

\* C14: after handle_collision on a head-on collision of two approaching
\* non-static bodies the relative velocity along the normal is -e times the
\* one before, e the larger of the two bouncinesses; so for two bodies of
\* equal mass and bounciness 0 it is 0.
C14_HeadOnRestitution ==
    HeadOnCollision =>
        /\ last.raised = ""
        /\ RelNormalVel(last.col, rigid)
             = RMul(RNeg(Restitution(last.col, last.rb)),
                    RelNormalVel(last.col, last.rb))
        /\ (EqualMasses /\ Restitution(last.col, last.rb) = Zero)
             => RelNormalVel(last.col, rigid) = Zero

\* C14 happens: two bodies of equal mass and bounciness 0 met head-on, with
\* friction, and their velocities changed
C14_Witness ==
    /\ HeadOnCollision /\ EqualMasses
    /\ Restitution(last.col, last.rb) = Zero
    /\ last.rb[1][1].friction = One
    /\ rigid # last.rb

(***************************************************************************)
(* GameObject: the components it holds                                     *)
(***************************************************************************)
\* mutating calls per behaviour
MaxCalls == 3

Types == {"Component", "RigidBody", "Hitbox", "Circle", "Polygon", "Rectangle"}
\* the base class of a class (Component has none)
base(t) ==
    CASE t = "RigidBody" -> "Component"
      [] t = "Hitbox" -> "Component"
      [] t = "Circle" -> "Hitbox"
      [] t = "Polygon" -> "Hitbox"
      [] t = "Rectangle" -> "Polygon"
      [] OTHER -> ""
RECURSIVE issubclass(_, _)
issubclass(t, comp_type) ==
    t = comp_type \/ (base(t) # "" /\ issubclass(base(t), comp_type))

\* type(component)
type(c) ==
    CASE c \in {"rb1", "rb2"} -> "RigidBody"
      [] c = "circle" -> "Circle"
      [] c = "rect" -> "Rectangle"
\* component.singular: RigidBody sets it, the hitboxes keep Component's False
singular(c) == type(c) = "RigidBody"

\* comp_type in self._components
has_key(d, comp_type) == \E i \in 1..Len(d) : d[i].key = comp_type
\* the position of the first key that is a subclass of comp_type, at or
\* after position i; 0 if there is none
RECURSIVE first_match(_, _, _)
first_match(d, comp_type, i) ==
    IF i > Len(d) THEN 0
    ELSE IF issubclass(d[i].key, comp_type) THEN i
    ELSE first_match(d, comp_type, i + 1)

\* GameObject.add(component), one component
add(d, own, c) ==
    IF singular(c) /\ has_key(d, type(c))
    THEN [d |-> d, own |-> own, raised |-> "DuplicateComponentError"]
    ELSE LET keyed == IF has_key(d, type(c)) THEN d
                      ELSE Append(d, [key |-> type(c), val |-> <<>>])
             i == CHOOSE k \in 1..Len(keyed) : keyed[k].key = type(c)
         IN  [d |-> [keyed EXCEPT ![i].val = Append(@, c)],
              own |-> [own EXCEPT ![c] = TRUE],
              raised |-> ""]

\* del val[ind]
del_at(val, ind) ==
    [k \in 1..(Len(val) - 1) |-> IF k <= ind THEN val[k] ELSE val[k + 1]]

\* GameObject.remove_ind(comp_type, ind), ind counted from 0
RECURSIVE remove_ind_from(_, _, _, _)
remove_ind_from(d, comp_type, ind, i) ==
    IF i > Len(d) THEN [d |-> d, raised |-> "IndexError"]
    ELSE IF issubclass(d[i].key, comp_type)
    THEN IF ind < Len(d[i].val)
         THEN [d |-> [d EXCEPT ![i].val = del_at(@, ind)], raised |-> ""]
         ELSE remove_ind_from(d, comp_type, ind - Len(d[i].val), i + 1)
    ELSE remove_ind_from(d, comp_type, ind, i + 1)
remove_ind(d, comp_type, ind) == remove_ind_from(d, comp_type, ind, 1)

\* GameObject.remove(comp_type)
remove(d, comp_type) == remove_ind(d, comp_type, 0)

\* GameObject.remove_all(comp_type): `del val` unbinds the loop variable
remove_all(d, comp_type) ==
    [d |-> d,
     raised |-> IF first_match(d, comp_type, 1) # 0 THEN "" ELSE "IndexError"]

\* GameObject.get(comp_type): <<>> is None
get_component(d, comp_type) ==
    LET i == first_match(d, comp_type, 1)
    IN  IF i = 0 THEN [result |-> <<>>, raised |-> ""]
        ELSE IF d[i].val = <<>> THEN [result |-> <<>>, raised |-> "IndexError"]
        ELSE [result |-> <<d[i].val[1]>>, raised |-> ""]

\* GameObject.get_all(comp_type)
RECURSIVE get_all_from(_, _, _)
get_all_from(d, comp_type, i) ==
    IF i > Len(d) THEN <<>>
    ELSE (IF issubclass(d[i].key, comp_type) THEN d[i].val ELSE <<>>)
            \o get_all_from(d, comp_type, i + 1)
get_all(d, comp_type) == get_all_from(d, comp_type, 1)

Call(name, comp_type, c, ind, raised, result) ==
    [op |-> name, type |-> comp_type, comp |-> c, ind |-> ind, raised |-> raised,
     result |-> result, before |-> components]

InitGameObject ==
    /\ components = <<>>
    /\ gameobj = [o \in Obj |-> GameObject(V(0, 0))]
    /\ rigid = [o \in Obj |-> NoBody]
    /\ hitbox = [o \in Obj |-> Circle(R(2), One, FALSE)]
    /\ start = [go |-> gameobj, rb |-> rigid]
    /\ last = Call("init", "", "", 0, "", <<>>)
    /\ steps = 0
    /\ sched = <<>>
    /\ cont = NoCont
    /\ poly = NoPoly
    /\ comp_gameobj = NoOwner
    /\ alias = NoAlias
    /\ simple_tilemap = NoTilemap

\* the calls leave everything but the components alone
OnlyComponents ==
    UNCHANGED <<gameobj, rigid, hitbox, start, sched, cont, poly, alias,
                 simple_tilemap>>

\* gameobj.add(c)
Add(c) ==
    /\ steps < MaxCalls
    /\ LET r == add(components, comp_gameobj, c)
       IN  /\ components' = r.d
           /\ comp_gameobj' = r.own
           /\ last' = Call("add", type(c), c, 0, r.raised, <<>>)
    /\ steps' = steps + 1
    /\ OnlyComponents

\* gameobj.remove(comp_type)
Remove(comp_type) ==
    /\ steps < MaxCalls
    /\ LET r == remove(components, comp_type)
       IN  /\ components' = r.d
           /\ last' = Call("remove", comp_type, "", 0, r.raised, <<>>)
    /\ steps' = steps + 1
    /\ UNCHANGED comp_gameobj
    /\ OnlyComponents

\* gameobj.remove_ind(comp_type, ind)
RemoveInd(comp_type, ind) ==
    /\ steps < MaxCalls
    /\ LET r == remove_ind(components, comp_type, ind)
       IN  /\ components' = r.d
           /\ last' = Call("remove_ind", comp_type, "", ind, r.raised, <<>>)
    /\ steps' = steps + 1
    /\ UNCHANGED comp_gameobj
    /\ OnlyComponents

\* gameobj.remove_all(comp_type)
RemoveAll(comp_type) ==
    /\ steps < MaxCalls
    /\ LET r == remove_all(components, comp_type)
       IN  /\ components' = r.d
           /\ last' = Call("remove_all", comp_type, "", 0, r.raised, <<>>)
    /\ steps' = steps + 1
    /\ UNCHANGED comp_gameobj
    /\ OnlyComponents

\* gameobj.get(comp_type)
Get(comp_type) ==
    /\ LET r == get_component(components, comp_type)
       IN  last' = Call("get", comp_type, "", 0, r.raised, r.result)
    /\ UNCHANGED <<steps, components, comp_gameobj>>
    /\ OnlyComponents

\* gameobj.get_all(comp_type)
GetAll(comp_type) ==
    /\ last' = Call("get_all", comp_type, "", 0, "", get_all(components, comp_type))
    /\ UNCHANGED <<steps, components, comp_gameobj>>
    /\ OnlyComponents

NextGameObject ==
    \/ \E c \in Components : Add(c)
    \/ \E t \in Types : Remove(t)
    \/ \E t \in Types, ind \in {0, 1} : RemoveInd(t, ind)
    \/ \E t \in Types : RemoveAll(t)
    \/ \E t \in Types : Get(t)
    \/ \E t \in Types : GetAll(t)

SpecGameObject == InitGameObject /\ [][NextGameObject]_vars

\* the components held, of a type or its subclasses, in any order
Held(d, comp_type) ==
    UNION { { d[i].val[k] : k \in 1..Len(d[i].val) } :
            i \in {n \in 1..Len(d) : issubclass(d[n].key, comp_type)} }

\* C15: in every state reached by add, remove, remove_ind and remove_all,
\* GameObject.get(T) does not raise; it returns a held component of type T
\* or a subclass if there is one and None otherwise.
C15_GetReturnsHeldOrNone ==
    last.op = "get" =>
        /\ last.raised = ""
        /\ IF Held(components, last.type) = {}
           THEN last.result = <<>>
           ELSE /\ last.result # <<>>
                /\ last.result[1] \in Held(components, last.type)

\* C16: GameObject.add(c) raises DuplicateComponentError exactly when c is
\* singular and a component of c's type is held; otherwise c is appended to
\* the components of its type and c.gameobj is the game object.
C16_AddRaisesOnHeldSingular ==
    last.op = "add" =>
        LET dup == singular(last.comp) /\ Held(last.before, last.type) # {}
        IN  /\ (last.raised = "DuplicateComponentError") <=> dup
            /\ ~dup => /\ last.raised = ""
                       /\ get_all(components, last.type)
                            = Append(get_all(last.before, last.type), last.comp)
                       /\ comp_gameobj[last.comp]

\* C17: GameObject.remove_all(T), when a component of type T or a subclass
\* is held, leaves get_all(T) empty and every component of another type
\* held; when none is held it raises IndexError and removes nothing.
C17_RemoveAllRemovesAll ==
    last.op = "remove_all" =>
        IF Held(last.before, last.type) # {}
        THEN /\ last.raised = ""
             /\ get_all(components, last.type) = <<>>
             /\ \A t \in Types :
                    ~issubclass(t, last.type) /\ ~issubclass(last.type, t)
                        => get_all(components, t) = get_all(last.before, t)
        ELSE /\ last.raised = "IndexError"
             /\ components = last.before

(***************************************************************************)
(* RigidBody.clone: the original is the body of game object 1, the clone   *)
(* becomes the body of game object 2                                       *)
(***************************************************************************)
\* Defaults.rigidbody_defaults, for the options clone() does not pass
rigidbody_defaults == [ang_vel |-> Zero, moment |-> One]

\* RigidBody.clone(): the options it passes, the defaults for the others
clone(rb) ==
    RigidBody([static         |-> rb.static,
               gravity        |-> rb.gravity,
               friction       |-> rb.friction,
               max_speed      |-> rb.max_speed,
               pos_correction |-> rb.pos_correction,
               velocity       |-> rb.velocity,
               mass           |-> mass(rb),
               bounciness     |-> rb.bounciness,
               ang_vel        |-> rigidbody_defaults.ang_vel,
               moment         |-> rigidbody_defaults.moment])

\* clone() hands self.velocity, the Vector object itself, to the new body.
\* What a later `self.velocity += ...` does to a shared Vector depends on
\* the Vector class (not among the sources): with an in-place __iadd__ the
\* other body sees the sum, without one the name is bound to a new Vector
\* and the sharing ends.  physics() then clamps self.velocity in place.
\* The bodies after a call on the body of o that left it as `now`:
shared_velocity(rbs, al, o, now, rebinds) ==
    LET other == 3 - o
    IN  IF al.velocity /\ al.in_place /\ ~is_none(rbs, other)
        THEN [rb |-> [rbs EXCEPT ![o] = <<now>>,
                                 ![other] = <<[get(rbs, other) EXCEPT
                                                !.velocity = now.velocity]>>],
              alias |-> al]
        ELSE [rb |-> [rbs EXCEPT ![o] = <<now>>],
              alias |-> [al EXCEPT !.velocity = @ /\ ~rebinds]]

CloneBodies ==
    { <<RigidBody(Params(st, m, vel, ang, mom, Zero, Zero, V(0, 1)))>> :
        st \in BOOLEAN, m \in {Zero, R(2)}, vel \in {V(1, 0), V(4, 4)},
        ang \in {Zero, One}, mom \in {One, R(2)} }

InitClone ==
    /\ gameobj = [o \in Obj |-> GameObject(IF o = 1 THEN V(0, 0) ELSE V(3, 0))]
    /\ \E b \in CloneBodies : rigid = (1 :> b @@ 2 :> NoBody)
    /\ hitbox = [o \in Obj |-> Circle(R(2), One, FALSE)]
    /\ start = [go |-> gameobj, rb |-> rigid]
    /\ last = Op("init", 0, 0, NoCol, NoRes)
    /\ steps = 0
    /\ sched = <<>>
    /\ cont = NoCont
    /\ poly = NoPoly
    /\ components = <<>>
    /\ comp_gameobj = NoOwner
    /\ \E in_place \in BOOLEAN : alias = [velocity |-> FALSE, in_place |-> in_place]
    /\ simple_tilemap = NoTilemap

\* game object 2 is given rigid[1].clone()
Clone ==
    /\ steps < MaxSteps
    /\ is_none(rigid, 2)
    /\ rigid' = [rigid EXCEPT ![2] = <<clone(get(rigid, 1))>>]
    /\ alias' = [alias EXCEPT !.velocity = TRUE]
    /\ last' = Op("clone", 1, 2, NoCol, NoRes)
    /\ steps' = steps + 1
    /\ UNCHANGED <<gameobj, hitbox, start, sched, cont, poly, components,
                   comp_gameobj,
                 simple_tilemap>>

\* the fixed_update of the body of o, original or clone
CloneFixedUpdate(o) ==
    /\ steps < MaxSteps
    /\ ~is_none(rigid, o)
    /\ LET r == fixed_update(get(rigid, o), gameobj[o])
           s == shared_velocity(rigid, alias, o, r.rb, ~get(rigid, o).static)
       IN  /\ rigid' = IF get(rigid, o).static THEN rigid ELSE s.rb
           /\ alias' = s.alias
           /\ gameobj' = [gameobj EXCEPT ![o] = r.go]
    /\ last' = Op("fixed_update", o, o, NoCol, NoRes)
    /\ steps' = steps + 1
    /\ UNCHANGED <<hitbox, start, sched, cont, poly, components, comp_gameobj,
                 simple_tilemap>>

\* add_force(force) on the body of o, original or clone
CloneAddForce(o, force) ==
    /\ steps < MaxSteps
    /\ ~is_none(rigid, o)
    /\ LET s == shared_velocity(rigid, alias, o,
                                add_force(get(rigid, o), force), TRUE)
       IN  /\ rigid' = s.rb
           /\ alias' = s.alias
    /\ last' = Op("add_force", o, o, NoCol, NoRes)
    /\ steps' = steps + 1
    /\ UNCHANGED <<gameobj, hitbox, start, sched, cont, poly, components,
                   comp_gameobj,
                 simple_tilemap>>

NextClone ==
    \/ Clone
    \/ \E o \in Obj : CloneFixedUpdate(o)
    \/ \E o \in Obj, force \in {V(2, 0), V(0, 8)} : CloneAddForce(o, force)

SpecClone == InitClone /\ [][NextClone]_vars

\* a call on one of the two bodies left the other's velocity and angular
\* velocity as they were
OtherBodyUntouched ==
    (last.op \in {"fixed_update", "add_force"} /\ ~is_none(last.rb, 3 - last.a))
        => /\ rigid[3 - last.a][1].velocity = last.rb[3 - last.a][1].velocity
           /\ rigid[3 - last.a][1].ang_vel = last.rb[3 - last.a][1].ang_vel

\* C19: the clone starts with the static flag, gravity, friction, maximum
\* speed, position correction, velocity, angular velocity, mass, moment and
\* bounciness of the original, and no fixed_update or add_force on the clone
\* changes the velocity or angular velocity of the original, nor one on the
\* original those of the clone.
C19_CloneIsIndependentCopy ==
    /\ last.op = "clone" => rigid[2] = rigid[1]
    /\ OtherBodyUntouched

(***************************************************************************)
(* Ticks: fixed_update between forces and collisions, on bodies fast       *)
(* enough for max_speed to matter                                          *)
(***************************************************************************)
TickBodies1 ==
    { <<RigidBody(Params(st, m, vel, ang, One, One, Zero, g))>> :
        st \in BOOLEAN, m \in {Zero, R(2)}, vel \in {V(1, 0), V(4, 4), V(-5, 3)},
        ang \in {Zero, One}, g \in {V(0, 1)} }
TickBodies2 ==
    {NoBody,
     <<RigidBody(Params(FALSE, One, V(-6, 0), Zero, One, One, Zero, V(0, 20)))>>}

InitTick ==
    /\ gameobj = [o \in Obj |-> GameObject(IF o = 1 THEN V(0, 0) ELSE V(3, 0))]
    /\ \E b1 \in TickBodies1, b2 \in TickBodies2 : rigid = (1 :> b1 @@ 2 :> b2)
    /\ hitbox = [o \in Obj |-> Circle(R(2), One, FALSE)]
    /\ start = [go |-> gameobj, rb |-> rigid]
    /\ last = Op("init", 0, 0, NoCol, NoRes)
    /\ steps = 0
    /\ sched = <<>>
    /\ cont = NoCont
    /\ poly = NoPoly
    /\ components = <<>>
    /\ comp_gameobj = NoOwner
    /\ alias = NoAlias
    /\ simple_tilemap = NoTilemap

NextTick ==
    \/ \E o \in Obj : FixedUpdate(o)
    \/ \E force \in {V(16, 0), V(0, -2)} : AddForce(force)
    \/ \E col \in Manifolds : HandleCollision(col)

SpecTick == InitTick /\ [][NextTick]_vars

\* the last call was the fixed_update of a non-static body
LastTick ==
    /\ last.op = "fixed_update"
    /\ ~last.rb[last.a][1].static
\* the velocity of that body once gravity has been added: gravity * dt more
\* for a body with mass, the same for a body of mass 0
WithGravity ==
    LET old == last.rb[last.a][1]
    IN  VAdd(old.velocity,
             IF old.inv_mass # Zero THEN VScale(old.gravity, fixed_delta_sec)
             ELSE VZero)
Within(v, bound) ==
    /\ RLe(RNeg(bound.x), v.x) /\ RLe(v.x, bound.x)
    /\ RLe(RNeg(bound.y), v.y) /\ RLe(v.y, bound.y)

\* C20: the fixed_update of a non-static body adds gravity * dt to the
\* velocity (nothing for mass 0), clamps the velocity component-wise into
\* [-max_speed, max_speed], and then advances the position by the clamped
\* velocity * dt and the rotation by ang_vel * dt; so after the tick every
\* velocity component is within [-max_speed, max_speed] and no coordinate
\* has moved by more than max_speed * dt, whatever forces and collisions
\* came before.
C20_TickClampsBeforeMoving ==
    LastTick =>
        LET o == last.a
            old == last.rb[o][1]
            now == rigid[o][1]
            v == clamp(WithGravity, VNeg(old.max_speed), old.max_speed)
        IN  /\ now.velocity = v
            /\ gameobj[o].pos = VAdd(last.go[o].pos, VScale(v, fixed_delta_sec))
            /\ gameobj[o].rotation
                 = RAdd(last.go[o].rotation, RMul(old.ang_vel, fixed_delta_sec))
            /\ Within(now.velocity, old.max_speed)
            /\ Within(VSub(gameobj[o].pos, last.go[o].pos),
                      VScale(old.max_speed, fixed_delta_sec))

\* C20 happens: after a force or a collision, a body with mass ticked with
\* more than max_speed, and was slowed before it moved
C20_Witness ==
    /\ LastTick /\ steps = 2
    /\ last.rb[last.a][1].inv_mass # Zero
    /\ last.rb # start.rb
    /\ ~Within(WithGravity, last.rb[last.a][1].max_speed)

(***************************************************************************)
(* Positional correction: handle_collision on manifolds within and beyond  *)
(* the slop, between bodies with pos_correction 1/4 (the default) or 1     *)
(***************************************************************************)
CorrectionBodies1 ==
    {NoBody} \cup
    { <<RigidBody([Params(st, m, vel, Zero, One, One, f, VZero)
                     EXCEPT !.pos_correction = pc])>> :
        st \in BOOLEAN, m \in {One, R(2)}, vel \in {V(1, 0), V(-1, 1)},
        f \in {Zero, One}, pc \in {Q(1, 4), One} }
CorrectionBodies2 ==
    {NoBody} \cup
    { <<RigidBody([Params(FALSE, m, VZero, Zero, One, Zero, One, VZero)
                     EXCEPT !.pos_correction = One])>> : m \in {Zero, R(2)} }

\* penetrations below the slop, equal to it, just above it and deep
CorrectionManifolds ==
    { [shape_a |-> a, shape_b |-> b, penetration |-> p, normal |-> V(1, 0),
       contact_a |-> c[1], contact_b |-> c[2]] :
        a \in Obj, b \in Obj, p \in {Q(1, 200), slop, Q(1, 50), One},
        c \in {<<V(1, 0), V(-1, 0)>>, <<V(0, 1), V(0, -1)>>} }

InitCorrection ==
    /\ gameobj = [o \in Obj |-> GameObject(IF o = 1 THEN V(0, 0) ELSE V(3, 0))]
    /\ \E b1 \in CorrectionBodies1, b2 \in CorrectionBodies2 :
            rigid = (1 :> b1 @@ 2 :> b2)
    /\ hitbox = [o \in Obj |-> Circle(R(2), One, FALSE)]
    /\ start = [go |-> gameobj, rb |-> rigid]
    /\ last = Op("init", 0, 0, NoCol, NoRes)
    /\ steps = 0
    /\ sched = <<>>
    /\ cont = NoCont
    /\ poly = NoPoly
    /\ components = <<>>
    /\ comp_gameobj = NoOwner
    /\ alias = NoAlias
    /\ simple_tilemap = NoTilemap

NextCorrection ==
    \/ \E o \in Obj : FixedUpdate(o)
    \/ \E col \in CorrectionManifolds : HandleCollision(col)

SpecCorrection == InitCorrection /\ [][NextCorrection]_vars

PositionsUnchanged == \A o \in Obj : gameobj[o].pos = last.go[o].pos
\* both bodies of the resolved manifold are present and non-static, of
\* positive mass and with pos_correction 1, beyond the slop
FullyCorrected ==
    /\ LastResolve
    /\ RLt(slop, last.col.penetration)
    /\ \A o \in Obj : /\ Dynamic(last.rb, o)
                      /\ last.rb[o][1].inv_mass # Zero
                      /\ last.rb[o][1].pos_correction = One
\* the share of the correction that the body on o takes
Share(o) ==
    RDiv(last.rb[o][1].inv_mass,
         RAdd(last.rb[1][1].inv_mass, last.rb[2][1].inv_mass))
\* the positions moved along the normal by penetration - slop in total,
\* shape_a's object forward and shape_b's backward, each by its share
MovedApart ==
    /\ gameobj[last.col.shape_a].pos
         = VAdd(last.go[last.col.shape_a].pos,
                VScale(last.col.normal,
                       RMul(Share(last.col.shape_a),
                            RSub(last.col.penetration, slop))))
    /\ gameobj[last.col.shape_b].pos
         = VSub(last.go[last.col.shape_b].pos,
                VScale(last.col.normal,
                       RMul(Share(last.col.shape_b),
                            RSub(last.col.penetration, slop))))
    /\ VSub(VSub(gameobj[last.col.shape_a].pos, gameobj[last.col.shape_b].pos),
            VSub(last.go[last.col.shape_a].pos, last.go[last.col.shape_b].pos))
         = VScale(last.col.normal, RSub(last.col.penetration, slop))

\* C22 as claimed: a penetration within the slop moves no position, and every
\* penetration beyond it between two present, non-static bodies of positive
\* mass with pos_correction 1 moves the positions apart by penetration - slop.
C22_Original ==
    /\ (LastResolve /\ RLe(last.col.penetration, slop)) => PositionsUnchanged
    /\ FullyCorrected => MovedApart

\* C22 (amended): handle_collision on a manifold whose penetration is at most
\* the slop 0.01 changes no position; on one beyond the slop between two
\* present, non-static bodies of positive mass with pos_correction 1 that are
\* not separating (rv . normal <= 0) the positions move apart along the
\* normal by penetration - 0.01 in total, split in proportion to the inverse
\* masses; when the bodies are separating no position changes.
C22_CorrectionBeyondSlop ==
    /\ (LastResolve /\ RLe(last.col.penetration, slop)) => PositionsUnchanged
    /\ (FullyCorrected /\ RLe(VelAlongNorm(last.col, last.rb), Zero))
         => last.raised = "" /\ MovedApart
    /\ (FullyCorrected /\ RLt(Zero, VelAlongNorm(last.col, last.rb)))
         => PositionsUnchanged

\* C22 happens: two approaching bodies of different positive masses, just
\* beyond the slop, were moved apart
C22_Witness ==
    /\ FullyCorrected
    /\ last.col.penetration = Q(1, 50)
    /\ RLe(VelAlongNorm(last.col, last.rb), Zero)
    /\ last.rb[1][1].inv_mass # last.rb[2][1].inv_mass
    /\ \A o \in Obj : gameobj[o].pos # last.go[o].pos

(***************************************************************************)
(* The CollisionInfo of SAT.overlap and the order of its arguments         *)
(***************************************************************************)
\* the separation of the last overlap is represented exactly: the axis it
\* lies on has rational length
ExactSeparation ==
    IF IsCircle(last.a) /\ IsCircle(last.b)
    THEN HasExactMagnitude(VSub(gameobj[last.a].pos, gameobj[last.b].pos))
    ELSE IF IsCircle(last.a)
    THEN circle_polygon_axes(hitbox, gameobj, last.a, last.b, FALSE).exact
    ELSE IF IsCircle(last.b)
    THEN circle_polygon_axes(hitbox, gameobj, last.b, last.a, TRUE).exact
    ELSE TRUE
\* the game objects with o moved by d
Moved(o, d) == [gameobj EXCEPT ![o].pos = VAdd(@, d)]
\* moved along the separation, past the point of touching, the first shape
\* no longer overlaps the second
LeavesAlongSep ==
    overlap(hitbox, Moved(last.a, VScale(last.info.sep, R(2))), last.a, last.b)
        = None
OneCircleOnePolygon == IsCircle(last.a) # IsCircle(last.b)

\* C23: a CollisionInfo returned by SAT.overlap(x, y) has shape_a = x and
\* shape_b = y for every pair of shape types and whichever pass wins; its
\* separation is the direction in which x moves to leave y; and for a circle
\* and a polygon the separation of overlap(p, c) is the negation of that of
\* overlap(c, p).
C23_SeparationFollowsArguments ==
    (LastOverlap /\ last.info.hit) =>
        /\ last.info.shape_a = last.a
        /\ last.info.shape_b = last.b
        /\ (ExactSeparation /\ last.info.sep # VZero) => LeavesAlongSep
        /\ (OneCircleOnePolygon /\ ExactSeparation) =>
             overlap(hitbox, gameobj, last.b, last.a)
                = CollisionInfo(last.b, last.a, VNeg(last.info.sep))

\* C23 happens: overlap(p, c) on the triangle and the circle found them
\* overlapping, with a separation that is not zero
C23_Witness ==
    /\ LastOverlap /\ last.info.hit
    /\ IsPolygon(last.a) /\ Len(hitbox[last.a].verts) = 3
    /\ IsCircle(last.b)
    /\ ExactSeparation /\ last.info.sep # VZero

(***************************************************************************)
(* SimpleTilemap: the property setters, _regen and update(), on a tilemap  *)
(* owned by a game object                                                  *)
(***************************************************************************)
\* assignments and update() calls per behaviour
MaxTileOps == 3

\* SimpleTilemap.__init__: tiles is the length of the list of Surfaces, scale
\* is left at (1, 1)
SimpleTilemap(tilemap, tiles, tile_size, collision, collider_tag) ==
    [map |-> tilemap, tiles |-> tiles, tile_size |-> tile_size,
     collision |-> collision, collider_tag |-> collider_tag, uptodate |-> FALSE]

\* the property setters
set_tilemap(tm, value) == [tm EXCEPT !.map = value, !.uptodate = FALSE]
set_tiles(tm, value) == [tm EXCEPT !.tiles = value, !.uptodate = FALSE]
set_tile_size(tm, value) == [tm EXCEPT !.tile_size = value, !.uptodate = FALSE]
set_collision(tm, value) == [tm EXCEPT !.collision = value, !.uptodate = FALSE]
set_collider_tag(tm, value) == [tm EXCEPT !.collider_tag = value, !.uptodate = FALSE]

\* the cells <<i, j>> of a map in the order of the loops of _regen, i and j
\* counted from 0
RECURSIVE cells_from(_, _)
cells_from(map, i) ==
    IF i > Len(map) THEN <<>>
    ELSE [j \in 1..Len(map[i]) |-> <<i - 1, j - 1>>] \o cells_from(map, i + 1)
cells(map) == cells_from(map, 1)

\* dims[0]: the length of the longest row
longest_row(map) ==
    CHOOSE n \in {Len(map[i]) : i \in 1..Len(map)} :
        \A i \in 1..Len(map) : Len(map[i]) <= n

\* tile in self._collision
in_collision(tm, tile) == \E k \in 1..Len(tm.collision) : tm.collision[k] = tile

\* lines 87 and 89: the centre of cell k of `size` cells of length `len`,
\* measured from the middle of the surface
centre(k, len, size) ==
    RAdd(RSub(RMul(R(k), len), RDiv(RMul(R(size), len), R(2))), RDiv(len, R(2)))

\* the Rectangle of lines 93-97 for the cell <<i, j>> holding `tile`
tile_rectangle(tm, cell, tile) ==
    [width  |-> tm.tile_size.x,
     height |-> tm.tile_size.y,
     tag    |-> IF tile < Len(tm.collider_tag) THEN tm.collider_tag[tile + 1] ELSE "",
     offset |-> Vec(centre(cell[2], tm.tile_size.x, longest_row(tm.map)),
                    centre(cell[1], tm.tile_size.y, Len(tm.map)))]

\* GameObject.add(component) for a Rectangle, which is not singular: the
\* component is appended to the list under its type
add_rectangle(d, rect) ==
    IF has_key(d, "Rectangle")
    THEN [k \in 1..Len(d) |->
            IF d[k].key = "Rectangle"
            THEN [key |-> d[k].key, val |-> Append(d[k].val, rect)] ELSE d[k]]
    ELSE Append(d, [key |-> "Rectangle", val |-> <<rect>>])

\* the loops of lines 86-98 from cell k on: a tile that self._tiles does not
\* hold raises IndexError at line 90, the Rectangles added so far remain
RECURSIVE regen_from(_, _, _, _)
regen_from(tm, todo, k, d) ==
    IF k > Len(todo) THEN [d |-> d, raised |-> ""]
    ELSE IF tm.map[todo[k][1] + 1][todo[k][2] + 1] >= tm.tiles
    THEN [d |-> d, raised |-> "IndexError"]
    ELSE regen_from(tm, todo, k + 1,
                    IF in_collision(tm, tm.map[todo[k][1] + 1][todo[k][2] + 1])
                    THEN add_rectangle(d, tile_rectangle(tm, todo[k],
                                         tm.map[todo[k][1] + 1][todo[k][2] + 1]))
                    ELSE d)

\* SimpleTilemap._regen(): the components of the game object after it and
\* the exception raised; max() of no rows raises ValueError at line 83
regen(tm, d) ==
    IF Len(tm.map) = 0 THEN [d |-> d, raised |-> "ValueError"]
    ELSE regen_from(tm, cells(tm.map), 1, d)

\* lines 102-103 once _regen has run: uptodate is set if it returned
regenerated(tm, g) ==
    [tm |-> IF g.raised = "" THEN [tm EXCEPT !.uptodate = TRUE] ELSE tm,
     d |-> g.d, regen |-> TRUE, raised |-> g.raised]

\* update() marking the tilemap up to date without regenerating
update_without_regen(tm, d) ==
    [tm |-> [tm EXCEPT !.uptodate = TRUE], d |-> d, regen |-> FALSE, raised |-> ""]

\* SimpleTilemap.update()
update(tm, d) ==
    IF ~tm.uptodate THEN regenerated(tm, regen(tm, d))
    ELSE [tm |-> tm, d |-> d, regen |-> FALSE, raised |-> ""]

\* the values assigned
Maps == {<<<<0>>>>, <<<<0, 1>>, <<1>>>>, <<>>}
TileCounts == {1, 2}
TileSizes == {V(1, 1), V(2, 2)}
Collisions == {<<>>, <<0>>, <<0, 1>>}
ColliderTags == {<<>>, <<"wall">>}
Setters == {"tilemap", "tiles", "tile_size", "collision", "collider_tag"}

\* the record of a call on the tilemap: whether _regen ran and what was
\* raised, the tilemap before the call, and the history the properties speak
\* of: whether a value was assigned since the previous update() (before and
\* after this call), whether the latest update() returned (before and after
\* this call), and the number of runs of _regen, and of runs that returned,
\* since the latest assignment
TileOp(name, regen_ran, exc) ==
    [op |-> name, regen |-> regen_ran, raised |-> exc, before |-> simple_tilemap,
     was_assigned |-> last.assigned,
     assigned |-> name # "update",
     prev_ok |-> last.ok,
     ok |-> IF name = "update" THEN exc = "" ELSE last.ok,
     regens |-> IF name # "update" THEN 0
                ELSE last.regens + (IF regen_ran THEN 1 ELSE 0),
     returned_regens |-> IF name # "update" THEN 0
                         ELSE last.returned_regens
                                + (IF regen_ran /\ exc = "" THEN 1 ELSE 0)]

InitTilemap ==
    /\ \E m \in Maps \ {<<>>}, n \in TileCounts, c \in {<<>>, <<0>>} :
         simple_tilemap = SimpleTilemap(m, n, V(1, 1), c, <<>>)
    /\ components = <<>>
    /\ last = [op |-> "init", regen |-> FALSE, raised |-> "", before |-> NoTilemap,
               was_assigned |-> FALSE, assigned |-> TRUE, prev_ok |-> TRUE,
               ok |-> TRUE, regens |-> 0, returned_regens |-> 0]
    /\ gameobj = [o \in Obj |-> GameObject(V(0, 0))]
    /\ rigid = [o \in Obj |-> NoBody]
    /\ hitbox = [o \in Obj |-> Circle(R(2), One, FALSE)]
    /\ start = [go |-> gameobj, rb |-> rigid]
    /\ steps = 0
    /\ sched = <<>>
    /\ cont = NoCont
    /\ poly = NoPoly
    /\ comp_gameobj = NoOwner
    /\ alias = NoAlias

\* an assignment to one of the five properties
Assign(name, tm) ==
    /\ steps < MaxTileOps
    /\ simple_tilemap' = tm
    /\ last' = TileOp(name, FALSE, "")
    /\ steps' = steps + 1
    /\ UNCHANGED <<gameobj, rigid, hitbox, start, sched, cont, poly, components,
                 comp_gameobj, alias>>

SetTilemap(value) == Assign("tilemap", set_tilemap(simple_tilemap, value))
SetTiles(value) == Assign("tiles", set_tiles(simple_tilemap, value))
SetTileSize(value) == Assign("tile_size", set_tile_size(simple_tilemap, value))
SetCollision(value) == Assign("collision", set_collision(simple_tilemap, value))
SetColliderTag(value) ==
    Assign("collider_tag", set_collider_tag(simple_tilemap, value))

\* tilemap.update()
Update ==
    /\ steps < MaxTileOps
    /\ \E r \in {update(simple_tilemap, components)} :
         /\ simple_tilemap' = r.tm
         /\ components' = r.d
         /\ last' = TileOp("update", r.regen, r.raised)
    /\ steps' = steps + 1
    /\ UNCHANGED <<gameobj, rigid, hitbox, start, sched, cont, poly,
                 comp_gameobj, alias>>

NextTilemap ==
    \/ \E value \in Maps : SetTilemap(value)
    \/ \E value \in TileCounts : SetTiles(value)
    \/ \E value \in TileSizes : SetTileSize(value)
    \/ \E value \in Collisions : SetCollision(value)
    \/ \E value \in ColliderTags : SetColliderTag(value)
    \/ Update

SpecTilemap == InitTilemap /\ [][NextTilemap]_vars

LastUpdate == last.op = "update"
\* what holds with and without an exception in _regen: a new tilemap and an
\* assigned one are out of date, and update() runs _regen exactly when the
\* tilemap is out of date
OutOfDateWhenAssigned ==
    /\ last.op = "init" => ~simple_tilemap.uptodate
    /\ last.op \in Setters => ~simple_tilemap.uptodate
    /\ LastUpdate => (last.regen <=> ~last.before.uptodate)

\* C24 as claimed: a new tilemap is out of date, every assignment marks it
\* out of date, update() runs _regen exactly when it is out of date and
\* leaves it up to date, at most one regeneration happens between two
\* assignments, and an update() with no assignment since the previous
\* update() regenerates nothing.
C24_Original ==
    /\ OutOfDateWhenAssigned
    /\ LastUpdate => simple_tilemap.uptodate
    /\ last.regens <= 1
    /\ (LastUpdate /\ ~last.was_assigned) => ~last.regen

\* C24 (amended): a new tilemap is out of date, every assignment marks it out
\* of date, and update() runs _regen exactly when it is out of date; it marks
\* the tilemap up to date when _regen returns, and leaves it out of date when
\* _regen raises; so between two assignments at most one regeneration
\* returns, an update() with no assignment since a previous update() that
\* returned regenerates nothing, and one after an update() that raised
\* regenerates again.
C24_LazyRegeneration ==
    /\ OutOfDateWhenAssigned
    /\ LastUpdate => (simple_tilemap.uptodate <=> last.raised = "")
    /\ last.returned_regens <= 1
    /\ (LastUpdate /\ ~last.was_assigned /\ last.prev_ok) => ~last.regen
    /\ (LastUpdate /\ ~last.was_assigned /\ ~last.prev_ok) => last.regen

\* C24 happens: after an assignment and an update() that regenerated, a
\* second update() ran nothing
C24_Witness ==
    /\ LastUpdate /\ steps = 3
    /\ ~last.was_assigned /\ last.prev_ok
    /\ last.returned_regens = 1
    /\ ~last.regen

\* the Rectangles the game object holds
Colliders == get_all(components, "Rectangle")
\* one Rectangle per cell whose tile is in the collision list
CollisionCells(tm) ==
    { c \in {cells(tm.map)[k] : k \in 1..Len(cells(tm.map))} :
        in_collision(tm, tm.map[c[1] + 1][c[2] + 1]) }

\* C25: after an update() that returned, whatever assignments and updates
\* came before, the game object holds exactly one Rectangle per map cell
\* whose tile is in the current collision list.
C25_OneColliderPerCollisionCell ==
    (LastUpdate /\ last.raised = "" /\ simple_tilemap.uptodate) =>
        /\ Len(Colliders) = Cardinality(CollisionCells(simple_tilemap))
        /\ Colliders = get_all(regen(simple_tilemap, <<>>).d, "Rectangle")

=============================================================================
